---- MODULE Spec2Model ----
(***************************************************************************)
(* A model of hapi-doc-test (src/hapi.js): the planner that arranges the   *)
(* concrete APIs of a corpus into a test tree (Hapi.compile, Node) and the *)
(* runtime that walks the tree (RunContext).                               *)
(*                                                                         *)
(* API names are sequences of tokens, so that String.startsWith is a       *)
(* prefix test that can tell "get" from "get-1".  JavaScript arrays are    *)
(* sequences; the array helpers of the extensions file are operators.      *)
(***************************************************************************)
EXTENDS Integers, Sequences, FiniteSets, TLC

VARIABLES
    mapis,           \* Hapi.mapis: the loaded descriptors, in corpus order
    testNames,       \* the argument of Hapi.compile: a set of name prefixes, or NoNames
    apis,            \* Hapi.apis: the concrete Api objects built by compile
    referencedApis,  \* Hapi.referencedApis
    apisToInsert,    \* compile's local list of the APIs that matched testNames
    idx,             \* compile's loop index over apisToInsert
    nodes,           \* the arena of Node objects; node 1 is the root
    inserting,       \* Node.inserting of every node: pairs <<node, api name>>
    errors,          \* Hapi.errors
    phase,           \* "loaded", "inserting", "compiled" or "thrown"; "running", "ended"
    ctxs,            \* the RunContext objects, in the order of their construction
    heap,            \* the environments (vars objects) the contexts refer to
    serialQueues,    \* Hapi.serialQueues: queue name -> queue of waiting contexts
    args,            \* the arguments of the function that is applied on its own
    results          \* what its applications returned or threw, in time order

planVars == <<mapis, testNames, apis, referencedApis, apisToInsert, idx, nodes,
              inserting, errors, phase>>
runVars == <<ctxs, heap, serialQueues>>
fnVars == <<args, results>>
vars == <<planVars, runVars, fnVars>>

\* No function is applied on its own
NoCall == args = <<>> /\ results = <<>>

(***************************************************************************)
(* Bounds of the model.                                                    *)
(***************************************************************************)
MaxApis == 3        \* descriptors in a corpus
MaxDepth == 14      \* call-stack depth at which insertApi overflows the stack

NoNames == {<<"*">>}   \* stands for testNames undefined: every API matches
NoNode == 0
NoApi == 0

(***************************************************************************)
(* Array helpers (Array.prototype.* of the extensions file).               *)
(***************************************************************************)
Includes(arr, val) == \E i \in DOMAIN arr : arr[i] = val

AddUniq(arr, val) == IF Includes(arr, val) THEN arr ELSE Append(arr, val)

RECURSIVE AddAllUniq(_, _)
AddAllUniq(arr, others) ==
    IF others = <<>> THEN arr
    ELSE AddAllUniq(AddUniq(arr, Head(others)), Tail(others))

PullAll(arr, others) == SelectSeq(arr, LAMBDA e : ~Includes(others, e))

Dup(arr) == arr

\* String.prototype.startsWith on token sequences: str starts with prefix
StartsWith(str, prefix) ==
    /\ Len(prefix) <= Len(str)
    /\ SubSeq(str, 1, Len(prefix)) = prefix

Range(s) == {s[i] : i \in DOMAIN s}

(***************************************************************************)
(* Descriptors and concrete APIs.                                          *)
(*                                                                         *)
(* A descriptor carries what MultiResponseApi.getApis hands to the Api     *)
(* constructor for its one test: the name, the variables referenced by     *)
(* the request, the declared produces, the response actions in scan order, *)
(* the hooks of the before chain and the variables to which the manifest   *)
(* gives a value.  An Api keeps the variables of its request apart from    *)
(* its consumes list (which is their union with the test's extra           *)
(* consumes; the descriptors here have no extras).                         *)
(***************************************************************************)
NoVarNew == [name |-> "", get |-> <<>>, delete |-> <<>>, serial_vars |-> <<>>]

VarSet(v) == [kind |-> "var_set", name |-> v, from |-> "", to |-> "",
              get |-> <<>>, delete |-> <<>>, serial_vars |-> <<>>]
VarNew(v, g, d, sv) == [kind |-> "var_new", name |-> v, from |-> "", to |-> "",
                        get |-> g, delete |-> d, serial_vars |-> sv]
VarRename(f, t) == [kind |-> "var_rename", name |-> "", from |-> f, to |-> t,
                    get |-> <<>>, delete |-> <<>>, serial_vars |-> <<>>]
VarDelete(v) == [kind |-> "var_delete", name |-> v, from |-> "", to |-> "",
                 get |-> <<>>, delete |-> <<>>, serial_vars |-> <<>>]

Descr(nm, cons, acts, hooks) ==
    [name |-> nm, consumes |-> cons, produces |-> <<>>, actions |-> acts,
     before |-> hooks, mvars |-> <<>>, serial_vars |-> <<>>,
     onBeforeRun |-> FALSE, onAfterRun |-> FALSE, afterApi |-> <<>>, afterAll |-> <<>>]

\* A descriptor whose response declares serial_vars
DescrSerial(nm, cons, acts, sv) ==
    [name |-> nm, consumes |-> cons, produces |-> <<>>, actions |-> acts,
     before |-> <<>>, mvars |-> <<>>, serial_vars |-> sv,
     onBeforeRun |-> FALSE, onAfterRun |-> FALSE, afterApi |-> <<>>, afterAll |-> <<>>]

\* A descriptor whose test declares hooks: onBeforeRun and onAfterRun say
\* whether a user function is given, the other three are hook chains
DescrHooks(nm, cons, acts, h) ==
    [name |-> nm, consumes |-> cons, produces |-> <<>>, actions |-> acts,
     before |-> h.before, mvars |-> <<>>, serial_vars |-> <<>>,
     onBeforeRun |-> h.onBeforeRun, onAfterRun |-> h.onAfterRun,
     afterApi |-> h.afterApi, afterAll |-> h.afterAll]

\* Hapi.vars: the variables the configuration gives a value (getPredefinedVars)
HapiVars == <<"n", "p", "e">>

\* Api.scanActions over the actions of a response, in scan order.
\* acc = [produces, deletes, actions, var_new, serial_vars, refs, thrown].
\* The var_delete case stores into hapi.varDeleteApis, which nothing ever
\* creates: the store throws a TypeError and the scan ends there.
RECURSIVE ScanActions(_, _)
ScanActions(toScan, acc) ==
    IF toScan = <<>> \/ acc.thrown THEN acc
    ELSE LET act == Head(toScan)
             nxt ==
               CASE act.kind = "var_new" ->
                      [acc EXCEPT !.var_new = [name |-> act.name, get |-> act.get,
                                               delete |-> act.delete,
                                               serial_vars |-> act.serial_vars],
                                  !.produces = Append(@, act.name),
                                  !.refs = AddUniq(AddUniq(@, act.get), act.delete),
                                  !.actions = Append(@, act),
                                  !.serial_vars = act.serial_vars]
                 [] act.kind = "var_set" ->
                      [acc EXCEPT !.produces = Append(@, act.name),
                                  !.actions = Append(@, act)]
                 [] act.kind = "var_rename" ->
                      [acc EXCEPT !.deletes = Append(@, act.from),
                                  !.produces = Append(@, act.to),
                                  !.actions = Append(@, act)]
                 [] act.kind = "var_delete" ->
                      [acc EXCEPT !.deletes = Append(@, act.name),
                                  !.thrown = TRUE]
         IN ScanActions(Tail(toScan), nxt)

\* A hook in object form: {hook: name}, and {hook: name, quit: [404]}
HookObject(name) == <<"{hook}">> \o name
HookObjectQuit(name) == <<"{hook,quit}">> \o name

\* isObject, of an element of a hook chain
IsObject(hook) == Head(hook) \in {"{hook}", "{hook,quit}"}

\* Api.scanHook: every string hook is a referenced API ("fn" is a user
\* function), and so is the hook field of a hook in object form
RECURSIVE ScanHook(_, _)
ScanHook(hook, refs) ==
    IF hook = <<>> THEN refs
    ELSE ScanHook(Tail(hook),
                  IF Head(hook) = <<"fn">> THEN refs
                  ELSE IF IsObject(Head(hook)) THEN AddUniq(refs, Tail(Head(hook)))
                  ELSE AddUniq(refs, Head(hook)))

\* The Api constructor: the Api object and Hapi.referencedApis after it, or
\* thrown when it ends with an exception
NewApi(d, refs) ==
    LET sc == ScanActions(d.actions,
                [produces |-> d.produces, deletes |-> <<>>, actions |-> <<>>,
                 var_new |-> NoVarNew, serial_vars |-> d.serial_vars, refs |-> refs,
                 thrown |-> FALSE])
    IN [api |-> [name |-> d.name, request |-> d.consumes,
                 consumes |-> d.consumes, produces |-> sc.produces,
                 deletes |-> sc.deletes, actions |-> sc.actions,
                 var_new |-> sc.var_new, serial_vars |-> sc.serial_vars,
                 before |-> d.before, mvars |-> d.mvars,
                 onBeforeRun |-> d.onBeforeRun, onAfterRun |-> d.onAfterRun,
                 afterApi |-> d.afterApi, afterAll |-> d.afterAll,
                 closures |-> {}],
        refs |-> IF sc.thrown THEN sc.refs
                 ELSE ScanHook(d.afterAll, ScanHook(d.afterApi, ScanHook(d.before, sc.refs))),
        thrown |-> sc.thrown]

\* MultiResponseApi.getPredefinedVars
GetPredefinedVars(api) == HapiVars \o api.mvars

\* MultiResponseApi.matches together with compile's own name test
Matches(d, names) ==
    \/ names = NoNames
    \/ \E t \in names : StartsWith(d.name, t)

\* The first loop of Hapi.compile: h = [apis, refs, toInsert, thrown]; an
\* exception of the Api constructor leaves the loop and compile
RECURSIVE BuildApis(_, _, _, _)
BuildApis(ms, names, i, h) ==
    IF i > Len(ms) THEN h
    ELSE LET r == NewApi(ms[i], h.refs)
         IN IF r.thrown THEN [h EXCEPT !.refs = r.refs, !.thrown = TRUE]
            ELSE BuildApis(ms, names, i + 1,
                   [apis |-> Append(h.apis, r.api),
                    refs |-> r.refs,
                    toInsert |-> IF Matches(ms[i], names)
                                 THEN Append(h.toInsert, Len(h.apis) + 1)
                                 ELSE h.toInsert,
                    thrown |-> FALSE])

(***************************************************************************)
(* Hapi helpers used by the planner.  H = [apis, refs].                    *)
(***************************************************************************)
\* A findApi that settles for the first API whose name starts with the name
FindApiByPrefix(H, name) ==
    IF \E i \in DOMAIN H.apis : StartsWith(H.apis[i].name, name)
    THEN CHOOSE i \in DOMAIN H.apis :
            /\ StartsWith(H.apis[i].name, name)
            /\ \A j \in 1..(i - 1) : ~StartsWith(H.apis[j].name, name)
    ELSE NoApi

\* Hapi.findApi: the index of the API of that name, NoApi if it throws
FindApi(H, name) ==
    IF \E i \in DOMAIN H.apis : H.apis[i].name = name
    THEN CHOOSE i \in DOMAIN H.apis :
            /\ H.apis[i].name = name
            /\ \A j \in 1..(i - 1) : H.apis[j].name # name
    ELSE NoApi

\* An isInsertableApi that compares whole names
IsInsertableApiExact(H, a) ==
    ~\E i \in DOMAIN H.refs : H.apis[a].name = H.refs[i]

\* Hapi.isInsertableApi
IsInsertableApi(H, a) ==
    ~\E i \in DOMAIN H.refs : StartsWith(H.apis[a].name, H.refs[i])

\* A getApiProducers that stops at the first producer
GetFirstApiProducer(H, varName) ==
    LET all == SelectSeq([i \in DOMAIN H.apis |-> i],
                         LAMBDA i : Includes(H.apis[i].produces, varName))
    IN IF all = <<>> THEN <<>> ELSE <<all[1]>>

\* Hapi.getApiProducers: indices in corpus order
GetApiProducers(H, varName) ==
    SelectSeq([i \in DOMAIN H.apis |-> i],
              LAMBDA i : Includes(H.apis[i].produces, varName))

(***************************************************************************)
(* The test tree.  S = [nodes, inserting, err, seeded] is the state the    *)
(* planner's recursion threads; err is the exception in flight ("none"     *)
(* when there is none), past which nothing more runs until compile catches *)
(* it.  seeded is a history of the recursion, which the code does not      *)
(* keep: the calls <<node, api, variable>> of insertApi that found no      *)
(* child subtree producing an undefined variable and turned to the         *)
(* producers of the first one.                                             *)
(***************************************************************************)
NoErr == [kind |-> "none", what |-> <<>>]
FindApiErr(name) == [kind |-> "findApi", what |-> name]
NoProducersErr(v) == [kind |-> "noProducers", what |-> <<v>>]
RangeErr == [kind |-> "RangeError", what |-> <<>>]

\* Node.prototype.addProduces
RECURSIVE AddProduces(_, _, _, _)
AddProduces(H, ns, n, varNames) ==
    LET vn == IF ns[n].api # NoApi
              THEN PullAll(varNames, H.apis[ns[n].api].deletes) ELSE varNames
        ns1 == [ns EXCEPT ![n].produces = AddAllUniq(@, vn)]
    IN IF ns[n].parent # NoNode THEN AddProduces(H, ns1, ns[n].parent, vn) ELSE ns1

\* A Node constructor that leaves the parent of the new node out: the walks
\* of usesApi and getUndefinedVars end at the node itself
NewNodeNoParent(H, ns, a, parent) ==
    LET id == Len(ns) + 1
        base == Append(ns, [api |-> a, parent |-> NoNode, children |-> <<>>,
                            produces |-> <<>>, subTreeProduces |-> <<>>,
                            preRun |-> NoNode, postRun |-> NoNode])
    IN IF a = NoApi THEN base
       ELSE [AddProduces(H, base, id, Dup(H.apis[a].produces))
                EXCEPT ![id].subTreeProduces = AddAllUniq(@, H.apis[a].produces)]

\* The Node constructor: the arena with the new node appended
NewNode(H, ns, a, parent) ==
    LET id == Len(ns) + 1
        base == Append(ns, [api |-> a, parent |-> parent, children |-> <<>>,
                            produces |-> <<>>, subTreeProduces |-> <<>>,
                            preRun |-> NoNode, postRun |-> NoNode])
    IN IF a = NoApi THEN base
       ELSE [AddProduces(H, base, id, Dup(H.apis[a].produces))
                EXCEPT ![id].subTreeProduces = AddAllUniq(@, H.apis[a].produces)]

\* The loop that ends addChild: the new node's subTreeProduces go up to the root
RECURSIVE AddSubTreeProduces(_, _, _)
AddSubTreeProduces(ns, n, vs) ==
    LET ns1 == [ns EXCEPT ![n].subTreeProduces = AddAllUniq(@, vs)]
    IN IF ns[n].parent # NoNode THEN AddSubTreeProduces(ns1, ns[n].parent, vs) ELSE ns1

\* Node.prototype.usesApi
RECURSIVE UsesApi(_, _, _)
UsesApi(ns, n, a) ==
    \/ ns[n].api = a
    \/ ns[n].parent # NoNode /\ UsesApi(ns, ns[n].parent, a)

\* Node.prototype.producesVar
ProducesVar(ns, n, varNames) ==
    \E i \in DOMAIN varNames : Includes(ns[n].subTreeProduces, varNames[i])

\* The walk of getUndefinedVars from node n up to the root
RECURSIVE PullProduced(_, _, _, _)
PullProduced(H, ns, n, vs) ==
    LET vs1 == IF ns[n].api # NoApi THEN PullAll(vs, H.apis[ns[n].api].produces) ELSE vs
    IN IF ns[n].parent # NoNode THEN PullProduced(H, ns, ns[n].parent, vs1) ELSE vs1

\* A getUndefinedVars that takes a variable for defined as soon as anything in
\* the node's subtree produces it
GetUndefinedVarsSubTree(H, ns, n, a) ==
    PullAll(PullAll(Dup(H.apis[a].consumes), ns[n].subTreeProduces),
            GetPredefinedVars(H.apis[a]))

\* Node.prototype.getUndefinedVars
GetUndefinedVars(H, ns, n, a) ==
    PullAll(PullProduced(H, ns, n, Dup(H.apis[a].consumes)),
            GetPredefinedVars(H.apis[a]))

\* Node.prototype.addChild
RECURSIVE AddChild(_, _, _, _)
AddChild(H, S, n, a) ==
    IF \E i \in DOMAIN S.nodes[n].children : S.nodes[S.nodes[n].children[i]].api = a
    THEN S
    ELSE IF S.nodes[n].postRun # NoNode /\ S.nodes[S.nodes[n].postRun].api = a
    THEN S
    ELSE
      LET k == Len(S.nodes) + 1
          ns1 == NewNode(H, S.nodes, a, n)
          vn == H.apis[a].var_new
          getApi == FindApi(H, vn.get)
          deleteApi == FindApi(H, vn.delete)
          pre == k + 1
          ns2 == [NewNode(H, ns1, getApi, k) EXCEPT ![k].preRun = pre]
          S3 == AddChild(H, [S EXCEPT !.nodes = ns2], pre, deleteApi)
          post == Len(S3.nodes) + 1
          ns4 == [NewNode(H, S3.nodes, deleteApi, k) EXCEPT ![k].postRun = post]
          link(ns) == AddSubTreeProduces(
                         [ns EXCEPT ![n].children = Append(@, k)],
                         n, ns[k].subTreeProduces)
      IN IF vn = NoVarNew THEN [S EXCEPT !.nodes = link(ns1)]
         ELSE IF getApi = NoApi
              THEN [S EXCEPT !.nodes = ns1, !.err = FindApiErr(vn.get)]
         ELSE IF deleteApi = NoApi
              THEN [S EXCEPT !.nodes = ns1, !.err = FindApiErr(vn.delete)]
         ELSE IF S3.err # NoErr THEN S3
         ELSE [S3 EXCEPT !.nodes = link(ns4)]

\* A seeding that goes on without producers
NoProducersIgnored(producers) == FALSE

\* insertApi: if (producers.length === 0) throw Error(...)
NoProducers(producers) == Len(producers) = 0

\* Node.prototype.insertApi; d is the depth of the call stack
RECURSIVE InsertApi(_, _, _, _, _)
RECURSIVE InsertIntoChildren(_, _, _, _, _, _, _, _)
RECURSIVE InsertProducers(_, _, _, _, _, _)

InsertApi(H, S, n, a, d) ==
    IF S.err # NoErr THEN S
    ELSE IF d > MaxDepth THEN [S EXCEPT !.err = RangeErr]
    ELSE IF <<n, H.apis[a].name>> \in S.inserting THEN S
    ELSE
      LET S1 == [S EXCEPT !.inserting = @ \cup {<<n, H.apis[a].name>>}]
          undefinedVars == GetUndefinedVars(H, S1.nodes, n, a)
      IN IF ~IsInsertableApi(H, a) THEN S1
         ELSE IF UsesApi(S1.nodes, n, a) THEN S1
         ELSE IF undefinedVars = <<>> THEN AddChild(H, S1, n, a)
         ELSE InsertIntoChildren(H, S1, n, a, undefinedVars, 1, FALSE, d)

\* The loop over self.children, and what follows it
InsertIntoChildren(H, S, n, a, undefinedVars, i, found, d) ==
    IF S.err # NoErr THEN S
    ELSE IF i <= Len(S.nodes[n].children)
    THEN LET child == S.nodes[n].children[i]
         IN IF ProducesVar(S.nodes, child, undefinedVars)
            THEN InsertIntoChildren(H, InsertApi(H, S, child, a, d + 1), n, a,
                                    undefinedVars, i + 1, TRUE, d)
            ELSE InsertIntoChildren(H, S, n, a, undefinedVars, i + 1, found, d)
    ELSE IF found THEN S
    ELSE
      LET varName == undefinedVars[1]
          producers == GetApiProducers(H, varName)
          S1 == InsertProducers(H, [S EXCEPT !.seeded = @ \cup {<<n, a, varName>>}],
                                n, producers, 1, d)
          S2 == [S1 EXCEPT !.inserting = @ \ {<<n, H.apis[a].name>>}]
      IN IF NoProducers(producers)
         THEN [S EXCEPT !.err = NoProducersErr(varName),
                        !.seeded = @ \cup {<<n, a, varName>>}]
         ELSE IF S1.err # NoErr THEN S1
         ELSE InsertApi(H, S2, n, a, d + 1)

InsertProducers(H, S, n, producers, j, d) ==
    IF S.err # NoErr \/ j > Len(producers) THEN S
    ELSE InsertProducers(H, InsertApi(H, S, n, producers[j], d + 1), n, producers,
                         j + 1, d)

(***************************************************************************)
(* The corpora.  A corpus is a sequence of at most MaxApis different       *)
(* descriptors of the catalogue, in any order.                             *)
(***************************************************************************)
Catalog ==
    { Descr(<<"mk", "X">>, <<>>, <<VarSet("x")>>, <<>>),
      Descr(<<"mk", "X2">>, <<"p">>, <<VarSet("x")>>, <<>>),
      Descr(<<"mk", "XY">>, <<"y">>, <<VarSet("x")>>, <<>>),
      Descr(<<"mk", "XZ">>, <<"z">>, <<VarSet("x")>>, <<>>),
      Descr(<<"ren">>, <<"x">>, <<VarRename("x", "y")>>, <<>>),
      Descr(<<"use", "X">>, <<"x">>, <<>>, <<>>),
      Descr(<<"use", "XY">>, <<"x", "y">>, <<>>, <<>>),
      Descr(<<"use", "Z">>, <<"z">>, <<>>, <<>>),
      Descr(<<"use", "G">>, <<"g">>, <<>>, <<<<"fn">>>>),
      Descr(<<"create">>, <<"n">>,
            <<VarNew("g", <<"get">>, <<"del">>, <<"n">>)>>, <<>>),
      Descr(<<"get">>, <<"n">>, <<VarSet("g")>>, <<>>),
      Descr(<<"get", "1">>, <<"n">>, <<VarSet("g")>>, <<>>),
      Descr(<<"del">>, <<"g">>, <<>>, <<>>),
      Descr(<<"drop">>, <<"x">>, <<VarDelete("x")>>, <<>>),
      Descr(<<"hk">>, <<>>, <<>>, <<<<"get", "1">>>>) }

Injective(c) == \A i, j \in DOMAIN c : i # j => c[i] # c[j]

\* A constructor with its getter and destructor and a user of the new object
AppApis ==
    { d \in Catalog : d.name \in {<<"create">>, <<"get">>, <<"del">>, <<"use", "G">>,
                                  <<"get", "1">>} }

\* A constructor whose getter and destructor set variables of their own, and
\* a user of the variable of the destructor
SatelliteApis ==
    { Descr(<<"new">>, <<"n">>, <<VarNew("g", <<"see">>, <<"rm">>, <<"n">>)>>, <<>>),
      Descr(<<"see">>, <<"n">>, <<VarSet("g"), VarSet("y")>>, <<>>),
      Descr(<<"rm">>, <<"g">>, <<VarSet("z")>>, <<>>),
      Descr(<<"use", "Z">>, <<"z">>, <<>>, <<>>) }

Corpora ==
    UNION { { c \in [1..k -> Catalog] : Injective(c) } : k \in 1..MaxApis }
    \cup UNION { { c \in [1..k -> AppApis] : Injective(c) } : k \in 4..5 }
    \cup UNION { { c \in [1..k -> SatelliteApis] : Injective(c) } : k \in 3..4 }

TestNameChoices == { NoNames, {<<"use">>} }

(***************************************************************************)
(* Hapi.compile, one action per step of its work.                          *)
(***************************************************************************)
Root == 1

Init ==
    /\ mapis \in Corpora
    /\ testNames \in TestNameChoices
    /\ apis = <<>>
    /\ referencedApis = <<>>
    /\ apisToInsert = <<>>
    /\ idx = 0
    /\ nodes = <<>>
    /\ inserting = {}
    /\ errors = <<>>
    /\ phase = "loaded"
    /\ ctxs = <<>>
    /\ heap = <<>>
    /\ serialQueues = <<>>
    /\ NoCall

\* The first loop of compile, and new Node(this, null); when an Api
\* constructor throws, compile ends there with the exception
CompileBegin ==
    /\ phase = "loaded"
    /\ LET h == BuildApis(mapis, testNames, 1,
                          [apis |-> <<>>, refs |-> <<>>, toInsert |-> <<>>,
                           thrown |-> FALSE])
       IN /\ apis' = h.apis
          /\ referencedApis' = h.refs
          /\ apisToInsert' = IF h.thrown THEN <<>> ELSE h.toInsert
          /\ nodes' = IF h.thrown THEN <<>>
                      ELSE NewNode([apis |-> h.apis, refs |-> h.refs], <<>>, NoApi,
                                   NoNode)
          /\ idx' = IF h.thrown THEN 0 ELSE 1
          /\ phase' = IF h.thrown THEN "thrown" ELSE "inserting"
    /\ UNCHANGED <<mapis, testNames, inserting, errors, runVars, fnVars>>

\* One turn of the second loop: try { root.insertApi(api) } catch { errors.push }
CompileInsert ==
    /\ phase = "inserting"
    /\ idx <= Len(apisToInsert)
    /\ LET H == [apis |-> apis, refs |-> referencedApis]
           a == apisToInsert[idx]
           S == InsertApi(H, [nodes |-> nodes, inserting |-> inserting, err |-> NoErr,
                              seeded |-> {}],
                          Root, a, 1)
       IN /\ nodes' = S.nodes
          /\ inserting' = S.inserting
          /\ errors' = IF S.err = NoErr THEN errors
                       ELSE Append(errors, [api |-> a, err |-> S.err])
    /\ idx' = idx + 1
    /\ UNCHANGED <<mapis, testNames, apis, referencedApis, apisToInsert, phase, runVars,
                   fnVars>>

\* The loop is over: logErrors, return root
CompileEnd ==
    /\ phase = "inserting"
    /\ idx > Len(apisToInsert)
    /\ phase' = "compiled"
    /\ UNCHANGED <<mapis, testNames, apis, referencedApis, apisToInsert, idx, nodes,
                   inserting, errors, runVars, fnVars>>

Next == CompileBegin \/ CompileInsert \/ CompileEnd

Spec == Init /\ [][Next]_vars

(***************************************************************************)
(* The runtime.  An environment (a vars object) is a cell of the heap; a   *)
(* context refers to its environment, so that two contexts may share one.  *)
(* A variable of an environment is [has, val, by]: whether the name is     *)
(* there, its value, and the context that last set, renamed or deleted it  *)
(* (0: nobody since Hapi.vars was loaded).  The value a context reads from *)
(* a response is its own identifier: different writers, different values.  *)
(* A variable whose value is an array (an enumeration) has isArray and its *)
(* elements.                                                               *)
(*                                                                         *)
(* The enumerations of the runs here are not empty (run throws when there  *)
(* is no variable combination).                                            *)
(***************************************************************************)
MaxSerial == 2      \* the plain serialised APIs of a run corpus
MaxCombos == 2      \* the values of the enumerated variable e of Hapi.vars

Vars == {"n", "p", "e", "g", "x", "y", "h"}
NoCtx == 0
NoKey == <<>>
NoError == <<>>

\* Hapi.vars
\* A variable with a scalar value, and one whose value is an array
Scalar(has, val, by) == [has |-> has, val |-> val, by |-> by, isArray |-> FALSE,
                         elems |-> <<>>]
Enumerated(elems, by) == [has |-> TRUE, val |-> 0, by |-> by, isArray |-> TRUE,
                          elems |-> elems]

HapiEnv ==
    [v \in Vars |-> IF v = "e" THEN Enumerated([i \in 1..MaxCombos |-> i], 0)
                    ELSE Scalar(Includes(HapiVars, v), 0, 0)]

\* A deep copy that hands back the object it was given
CloneAlias(hp, e) == [heap |-> hp, ref |-> e]

\* clone (moduleClone): a new object, equal to the old one
Clone(hp, e) == [heap |-> Append(hp, hp[e]), ref |-> Len(hp) + 1]

\* RunContext.prototype.setVar, renameVar, delVar, by context c
SetVar(env, name, c) == [env EXCEPT ![name] = Scalar(TRUE, c, c)]

RenameVar(env, from, to, c) ==
    [env EXCEPT ![from] = Scalar(FALSE, 0, c),
                ![to] = [env[from] EXCEPT !.by = c]]

DelVar(env, name, c) == [env EXCEPT ![name] = Scalar(FALSE, 0, c)]

\* RunContext.prototype.performActions
RECURSIVE PerformActions(_, _, _)
PerformActions(env, actions, c) ==
    IF actions = <<>> THEN env
    ELSE LET act == Head(actions)
             env1 == CASE act.kind \in {"var_new", "var_set"} -> SetVar(env, act.name, c)
                       [] act.kind = "var_rename" -> RenameVar(env, act.from, act.to, c)
                       [] act.kind = "var_delete" -> DelVar(env, act.name, c)
         IN PerformActions(env1, Tail(actions), c)

\* RunContext.prototype.getSerialQueueName (the serial variables of the APIs
\* run here always have a value)
GetSerialQueueName(api, env) ==
    IF api.serial_vars = <<>> THEN NoKey
    ELSE [i \in DOMAIN api.serial_vars |->
             <<api.serial_vars[i], env[api.serial_vars[i]].val>>]

\* getVarCombinationsRecurse, the loop over the values of vars[name]: a clone
\* of vars for each value, with the value in the place of the array.
\* g = [heap, refs], refs the vars objects of newVarsArray
RECURSIVE ExpandValues(_, _, _, _)
ExpandValues(g, e, name, j) ==
    IF j > Len(g.heap[e][name].elems) THEN g
    ELSE LET cl == Clone(g.heap, e)
             cell == g.heap[e][name]
         IN ExpandValues([heap |-> [cl.heap EXCEPT ![cl.ref][name] =
                                        Scalar(TRUE, cell.elems[j], cell.by)],
                          refs |-> Append(g.refs, cl.ref)],
                         e, name, j + 1)

\* getVarCombinationsRecurse, the loop over varsArray
RECURSIVE ExpandVars(_, _, _, _)
ExpandVars(g, varsArray, name, i) ==
    IF i > Len(varsArray) THEN g
    ELSE ExpandVars(IF g.heap[varsArray[i]][name].isArray
                    THEN ExpandValues(g, varsArray[i], name, 1)
                    ELSE [g EXCEPT !.refs = Append(@, varsArray[i])],
                    varsArray, name, i + 1)

\* getVarCombinationsRecurse: the names are shifted off the list one by one
RECURSIVE GetVarCombinationsRecurse(_, _, _)
GetVarCombinationsRecurse(hp, varsArray, names) ==
    IF names = <<>> THEN [heap |-> hp, refs |-> varsArray]
    ELSE LET g == ExpandVars([heap |-> hp, refs |-> <<>>], varsArray, Head(names), 1)
         IN GetVarCombinationsRecurse(g.heap, g.refs, Tail(names))

\* getVarCombinations(vars, names)
GetVarCombinations(hp, e, names) == GetVarCombinationsRecurse(hp, <<e>>, names)

\* A doRun that never waits
NeverWait(queue) == FALSE

\* A doRun that waits whenever the context has a queue name
AlwaysWait(queue) == TRUE

\* doRun: queue.length > 1, someone else is currently running
MustWait(queue) == Len(queue) > 1

(***************************************************************************)
(* R = [ctxs, heap, queues, apis] is the state the runtime's calls thread; *)
(* ns is the tree.  The locals of doRun (state, cbErr, queue, queueName)   *)
(* are fields of the context; pc is the stage of the waterfall at which    *)
(* the context stands; pending and eachDone are the bookkeeping of         *)
(* async.each in runChildren; index is the context's index, series the     *)
(* context whose run iterates over this one (forEachOfSeries) and combos   *)
(* the variable combinations a run iterates over.  hookStage, hookIdx and   *)
(* break are the hook chain that is run, the index and the break flag of   *)
(* its HookContext; isHook says that the context runs the API of a string  *)
(* hook, caller is the context whose chain invoked that hook, and again    *)
(* says that the callback of a stage of the context's waterfall was called *)
(* a second time; statusCode is the unexpected status of the               *)
(* response (0: none).  ran, errs and hooks are what the log of the run    *)
(* tells about the context: the stages whose body was executed; the stages *)
(* that called back with an error, with that error, in time order; the     *)
(* hooks that were invoked, in time order, each with the context that ran  *)
(* its API when it is a string hook, and with raised when it is a user     *)
(* function that threw or called back with an error.                       *)
(***************************************************************************)
\* The RunContext constructor
NewRunContext(R, envRef, node, parent, ignoreFailures) ==
    [R EXCEPT !.ctxs = Append(@,
        [node |-> node, parent |-> parent, vars |-> envRef,
         ignoreFailures |-> IF ~ignoreFailures /\ parent # NoCtx
                            THEN R.ctxs[parent].ignoreFailures ELSE ignoreFailures,
         pc |-> "new", state |-> 0, cbErr |-> NoError, queueName |-> NoKey,
         queue |-> FALSE, opts |-> FALSE, hookIdx |-> 0, pending |-> 0,
         eachDone |-> FALSE, ran |-> {}, errs |-> <<>>,
         index |-> 0, series |-> NoCtx, combos |-> <<>>,
         hookStage |-> "", break |-> FALSE, hooks |-> <<>>, isHook |-> FALSE,
         caller |-> NoCtx, again |-> FALSE, statusCode |-> 0])]

\* A queue that a context enters at the head
PushFirst(queue, c) == <<c>> \o queue

\* doRun: queue.push({ctx: self, cb: callback})
Push(queue, c) == Append(queue, c)

\* doRun of a context with an API, up to the start of the waterfall
DoRun(ns, R, c, proceed) ==
    LET ctx == R.ctxs[c]
        queueName == GetSerialQueueName(R.apis[ns[ctx.node].api], R.heap[ctx.vars])
        queue == Push(IF queueName \in DOMAIN R.queues THEN R.queues[queueName]
                      ELSE <<>>, c)
        R1 == [R EXCEPT !.ctxs[c].queueName = queueName, !.ctxs[c].state = 0,
                        !.ctxs[c].cbErr = NoError, !.ctxs[c].queue = FALSE]
    IN IF queueName # NoKey /\ ~proceed
       THEN IF MustWait(queue)
            THEN [R1 EXCEPT !.queues = (queueName :> queue) @@ @,
                            !.ctxs[c].pc = "waiting"]
            ELSE [R1 EXCEPT !.queues = (queueName :> queue) @@ @,
                            !.ctxs[c].pc = "preRun", !.ctxs[c].queue = TRUE]
       ELSE [R1 EXCEPT !.ctxs[c].pc = "preRun"]

\* An iteration that starts every combination at once
StartAll(combos) == Len(combos)

\* async.forEachOfSeries starts with the first element only
StartFirst(combos) == 1

\* The iteratee of run: a context for combination i on its vars, with the
\* node and the parent of context c, and its doRun
RECURSIVE StartCombinations(_, _, _, _, _)
StartCombinations(ns, R, c, i, last) ==
    IF i > last THEN R
    ELSE LET R1 == NewRunContext(R, R.ctxs[c].combos[i], R.ctxs[c].node,
                                 R.ctxs[c].parent, FALSE)
             k == Len(R1.ctxs)
             R2 == [R1 EXCEPT !.ctxs[k].index = i - 1, !.ctxs[k].series = c]
         IN StartCombinations(ns, DoRun(ns, R2, k, FALSE), c, i + 1, last)

\* The element of a set of one element: The({ F(x) : x \in {e} }) is F(e),
\* with e computed once
The(S) == CHOOSE v \in S : TRUE

\* run, once getVarCombinations gave g: with one combination the context
\* itself does doRun, with more a context for each is run, one after another
RunCombinations(ns, R, c, g) ==
    LET a == ns[R.ctxs[c].node].api
        R1 == [R EXCEPT !.apis[a].consumes = <<>>, !.heap = g.heap]
    IN IF Len(g.refs) = 1 THEN DoRun(ns, R1, c, FALSE)
       ELSE StartCombinations(ns, [R1 EXCEPT !.ctxs[c].combos = g.refs,
                                             !.ctxs[c].pc = "series"],
                              c, 1, StartFirst(g.refs))

\* RunContext.prototype.run of a context with an API: getVarCombinations
\* shifts every name off api.consumes
Run(ns, R, c) ==
    The({ RunCombinations(ns, R, c, g) :
             g \in { GetVarCombinations(R.heap, R.ctxs[c].vars,
                                        R.apis[ns[R.ctxs[c].node].api].consumes) } })

\* A waterfall that keeps the error of the last stage that failed
LastErr(cbErr, err) == IF err = NoError THEN cbErr ELSE err

\* doRun: if (!cbErr) cbErr = err
FirstErr(cbErr, err) == IF cbErr = NoError THEN err ELSE cbErr

\* The body of a stage of context c is executed
Ran(R, c, stage) == [R EXCEPT !.ctxs[c].ran = @ \cup {stage}]

\* A stage of context c calls back with err
CalledBack(R, c, stage, err) ==
    [R EXCEPT !.ctxs[c].cbErr = FirstErr(@, err),
              !.ctxs[c].errs = IF err = NoError THEN @
                               ELSE Append(@, [stage |-> stage, err |-> err])]

\* The callback of a hook stage (runHook's cb in doRun)
StageEnd(R, c, stage, err) ==
    LET R1 == CalledBack(R, c, stage, err)
    IN CASE stage = "before" ->
              [R1 EXCEPT !.ctxs[c].state = IF err = NoError THEN 3 ELSE @,
                         !.ctxs[c].pc = "main"]
         [] stage = "afterApi" ->
              [R1 EXCEPT !.ctxs[c].state = IF err = NoError THEN 5 ELSE @,
                         !.ctxs[c].pc = "children"]
         [] stage = "afterAll" ->
              [R1 EXCEPT !.ctxs[c].pc = "onAfterRun"]

\* A chain that goes on after a break
IsBreakNever(ctx) == FALSE

\* HookContext.prototype.isBreak
IsBreak(ctx) == ctx.break

\* runHook2, the callback given to the hook at ctx.index of an array: an
\* error or a break ends the chain, else the next hook is run, if there is one
HookCallback(ns, R0, c, err) ==
    LET ctx == R0.ctxs[c]
        hook == R0.apis[ns[ctx.node].api][ctx.hookStage]
        R == [R0 EXCEPT !.ctxs[c].hooks[Len(ctx.hooks)].back = TRUE,
                        !.ctxs[c].hooks[Len(ctx.hooks)].break = ctx.break]
    IN IF err # NoError THEN StageEnd(R, c, ctx.hookStage, err)
       ELSE IF IsBreak(ctx) THEN StageEnd(R, c, ctx.hookStage, NoError)
       ELSE IF ctx.hookIdx + 1 > Len(hook) THEN StageEnd(R, c, ctx.hookStage, NoError)
       ELSE [R EXCEPT !.ctxs[c].hookIdx = @ + 1, !.ctxs[c].pc = "hook"]

\* runHook: without a hook it calls back at once, else runHook2 is called
\* with a new HookContext
RunHook(ns, R, c, stage) ==
    LET hook == R.apis[ns[R.ctxs[c].node].api][stage]
        R1 == Ran(R, c, stage)
    IN IF hook = <<>> THEN StageEnd(R1, c, stage, NoError)
       ELSE [R1 EXCEPT !.ctxs[c].hookStage = stage, !.ctxs[c].hookIdx = 1,
                       !.ctxs[c].break = FALSE, !.ctxs[c].pc = "hook"]

\* The status codes of a response that is not the expected one
NotFound == 404
ServerError == 500

\* runHook2 of a string hook: hook.quit when the hook does not give one
DefaultQuit(ctx, hook) == IF ctx.hookIdx < Len(hook) THEN <<NotFound>> ELSE <<>>

\* Array.prototype.indexOf, counted from 0; -1 when val is not an element
IndexOf(arr, val) ==
    IF \E i \in DOMAIN arr : arr[i] = val
    THEN (CHOOSE i \in DOMAIN arr : arr[i] = val /\ \A j \in 1..(i - 1) : arr[j] # val) - 1
    ELSE -1

\* runHook2: the quit list of the hook at ctx.index, its own when it is an
\* object that gives one
HookQuitList(ctx, hook) ==
    IF Head(hook[ctx.hookIdx]) = "{hook,quit}" THEN <<NotFound>>
    ELSE DefaultQuit(ctx, hook)

\* The cb that the hook function of a string hook captured, which is the
\* callback given to the hook by the chain of context c.  When the hook
\* function is invoked by the chain of another context, the chain of c is
\* called back once more: it goes on with the next hook, or calls the
\* callback of the stage of c again.  What async.waterfall does when the
\* callback of a stage is called a second time is not written in hapi.js:
\* the context stays where it stands, and again tells that it happened
CapturedCallback(ns, R, c, caller, err) ==
    LET X == HookCallback(ns, R, c, err)
    IN IF caller = c \/ X.ctxs[c].pc = "hook" THEN X
       ELSE [X EXCEPT !.ctxs[c].pc = R.ctxs[c].pc, !.ctxs[c].again = TRUE]

\* runHook2, the callback of the run of the API of a string hook, in the
\* hook function that context c made; ctx is the HookContext the function
\* was invoked on, that of the context that called it:
\* if (err) { if (hook.quit.indexOf(runCtx.statusCode)) ctx.setBreak(true);
\*            else return cb(err); } return cb();
\* a context without a statusCode has undefined there, which no list holds
StringHookCallback(ns, R, c, k, err) ==
    LET caller == R.ctxs[k].caller
        ctx == R.ctxs[caller]
        quit == HookQuitList(ctx, R.apis[ns[ctx.node].api][ctx.hookStage])
        code == R.ctxs[k].statusCode
    IN IF err = NoError THEN CapturedCallback(ns, R, c, caller, NoError)
       ELSE IF code = 0 \/ IndexOf(quit, code) # 0
       THEN CapturedCallback(ns, [R EXCEPT !.ctxs[caller].break = TRUE], c, caller, NoError)
       ELSE CapturedCallback(ns, R, c, caller, err)

\* The callback runChildren was given, called by async.each
EachCallback(ns, R, p, err) ==
    IF ns[R.ctxs[p].node].api = NoApi
    THEN [R EXCEPT !.ctxs[p].eachDone = TRUE, !.ctxs[p].pc = "done"]
    ELSE [CalledBack(R, p, "children", err) EXCEPT
                   !.ctxs[p].eachDone = TRUE,
                   !.ctxs[p].state = IF err = NoError THEN 6 ELSE @,
                   !.ctxs[p].pc = "afterAll"]

\* An each that ends the contexts of the other children when one fails
InFlightCancelled(R, p) ==
    [R EXCEPT !.ctxs = [k \in DOMAIN @ |->
                           IF @[k].parent = p /\ @[k].pc # "done"
                           THEN [@[k] EXCEPT !.pc = "done"] ELSE @[k]]]

\* async.each, when an iteratee calls back with an error: the iteratees that
\* were started are left to run
InFlight(R, p) == R

\* async.each is told that a child has finished
ChildDone(ns, R, p, err) ==
    IF R.ctxs[p].eachDone THEN R
    ELSE IF err # NoError THEN EachCallback(ns, InFlight(R, p), p, err)
    ELSE IF R.ctxs[p].pending = 1
         THEN EachCallback(ns, [R EXCEPT !.ctxs[p].pending = 0], p, NoError)
    ELSE [R EXCEPT !.ctxs[p].pending = @ - 1]

\* RunContext.prototype.runChildren: a context on a copy of the environment
\* for every child node, each run in turn
RECURSIVE SpawnChildren(_, _, _, _)
SpawnChildren(ns, R, c, i) ==
    IF i > Len(ns[R.ctxs[c].node].children) THEN R
    ELSE LET cl == Clone(R.heap, R.ctxs[c].vars)
             R1 == NewRunContext([R EXCEPT !.heap = cl.heap], cl.ref,
                                 ns[R.ctxs[c].node].children[i], c, FALSE)
         IN The({ SpawnChildren(ns, R2, c, i + 1) : R2 \in { Run(ns, R1, Len(R1.ctxs)) } })

RunChildren(ns, R, c) ==
    LET children == ns[R.ctxs[c].node].children
        R1 == [R EXCEPT !.ctxs[c].pending = Len(children),
                        !.ctxs[c].eachDone = FALSE,
                        !.ctxs[c].pc = "childrenWait"]
    IN IF children = <<>> THEN EachCallback(ns, R1, c, NoError)
       ELSE SpawnChildren(ns, R1, c, 1)

\* A run callback that hands every error on
CallbackErrAll(ctx) == ctx.cbErr

\* run: if (self.ignoreFailures) return cb(); cb(err)
CallbackErr(ctx) == IF ctx.ignoreFailures THEN NoError ELSE ctx.cbErr

\* An iteration that goes on to the last combination whatever the error
SeriesEndsAtLast(ctx, combos) == ctx.index + 1 = Len(combos)

\* async.forEachOfSeries, when the iteratee of a combination calls back: an
\* error ends the iteration, and so does the last combination
SeriesEnds(ctx, combos) == ctx.cbErr # NoError \/ ctx.index + 1 = Len(combos)

\* The callback of a context is called with the context's cbErr: the one its
\* run was given or, for the context of a combination, the one of the
\* iteration, which goes on to the next combination or ends
RECURSIVE Completion(_, _, _)
Completion(ns, R, c) ==
    LET ctx == R.ctxs[c]
        p == ctx.parent
        err == CallbackErr(ctx)
        R1 == [R EXCEPT !.ctxs[c].pc = "done"]
        d == ctx.series
    IN IF d # NoCtx
       THEN IF SeriesEnds(ctx, R.ctxs[d].combos)
            THEN Completion(ns, [R1 EXCEPT !.ctxs[d].cbErr = ctx.cbErr], d)
            ELSE StartCombinations(ns, R1, d, ctx.index + 2, ctx.index + 2)
       ELSE IF ctx.isHook THEN StringHookCallback(ns, R1, p, c, err)
       ELSE IF ctx.node = ns[R.ctxs[p].node].preRun
       THEN [CalledBack(R1, p, "preRun", err) EXCEPT
                       !.ctxs[p].state = IF err = NoError THEN 1 ELSE @,
                       !.ctxs[p].pc = "onBeforeRun"]
       ELSE IF ctx.node = ns[R.ctxs[p].node].postRun
       THEN [CalledBack(R1, p, "postRun", err) EXCEPT !.ctxs[p].pc = "release"]
       ELSE ChildDone(ns, R1, p, err)
(***************************************************************************)
(* The corpora that are run.                                               *)
(***************************************************************************)
Tok == <<"1", "2", "3", "4">>

\* A plain API that is serialised on the value of n
SerialApi(i) == DescrSerial(<<"s", Tok[i]>>, <<"n">>, <<>>, <<"n">>)

Create == Descr(<<"create">>, <<"n">>, <<VarNew("g", <<"get">>, <<"del">>, <<"n">>)>>, <<>>)
Get == Descr(<<"get">>, <<"n">>, <<VarSet("g")>>, <<>>)
Del == Descr(<<"del">>, <<"g">>, <<>>, <<>>)

\* A constructor, then MaxSerial plain APIs, all with one queue name
QueueCorpus == <<Create, Get, Del>> \o [i \in 1..MaxSerial |-> SerialApi(i)]

\* MaxSerial plain APIs and one more below makeX, all with one queue name
LateCorpus ==
    [i \in 1..MaxSerial |-> SerialApi(i)]
    \o << Descr(<<"mk", "X">>, <<>>, <<VarSet("x")>>, <<>>),
          DescrSerial(<<"sx">>, <<"n", "x">>, <<>>, <<"n">>) >>

\* A constructor with two children that change their environment
SiblingCorpus ==
    << Create, Get, Del,
       Descr(<<"use", "G">>, <<"g">>, <<>>, <<<<"fn">>>>),
       Descr(<<"ren", "G">>, <<"g">>, <<VarRename("g", "y")>>, <<>>) >>

\* A corpus that does not compile, and one whose APIs cannot be built
NoProducerCorpus == << Descr(<<"use", "X">>, <<"x">>, <<>>, <<>>) >>
ThrowingCorpus == << Descr(<<"drop">>, <<"x">>, <<VarDelete("x")>>, <<>>) >>

\* A constructor and its child, both with onBeforeRun and onAfterRun functions
NoHooks == [onBeforeRun |-> FALSE, onAfterRun |-> FALSE, before |-> <<>>,
            afterApi |-> <<>>, afterAll |-> <<>>]

GatingCorpus ==
    << DescrHooks(<<"create">>, <<"n">>, <<VarNew("g", <<"get">>, <<"del">>, <<"n">>)>>,
                  [NoHooks EXCEPT !.onBeforeRun = TRUE, !.onAfterRun = TRUE]),
       Get, Del,
       DescrHooks(<<"use", "G">>, <<"g">>, <<>>,
                  [NoHooks EXCEPT !.onBeforeRun = TRUE, !.onAfterRun = TRUE]) >>

\* An API that is run for every value of e, and its child
ComboCorpus ==
    << Descr(<<"each">>, <<"e">>, <<VarSet("x")>>, <<>>),
       Descr(<<"use", "X">>, <<"x">>, <<>>, <<>>) >>

\* Two plain APIs serialised on the value of n, and one on the value of p
KeysCorpus ==
    << SerialApi(1), SerialApi(2), DescrSerial(<<"t">>, <<"p">>, <<>>, <<"p">>) >>

\* An API with hook chains of user functions and of the API chk, which is run
\* as a hook only
HookCorpus ==
    << Descr(<<"chk">>, <<>>, <<>>, <<>>),
       DescrHooks(<<"hk">>, <<>>, <<>>,
                  [NoHooks EXCEPT !.before = << <<"chk">>, <<"fn">>, <<"fn">> >>,
                                  !.afterApi = << <<"fn">>, <<"chk">> >>,
                                  !.afterAll = << <<"fn">> >>]) >>

\* An API that is run for every value of e, with a before chain of a user
\* function and a hook in object form that runs the API chk
ObjectHookCorpus ==
    << Descr(<<"chk">>, <<>>, <<>>, <<>>),
       DescrHooks(<<"oh">>, <<"e">>, <<>>,
                  [NoHooks EXCEPT !.before = << <<"fn">>, HookObjectQuit(<<"chk">>) >>]) >>

\* An API that is run for every value of e below the API that sets x
NestedComboCorpus ==
    << Descr(<<"mk", "X">>, <<>>, <<VarSet("x")>>, <<>>),
       Descr(<<"all">>, <<"x", "e">>, <<>>, <<>>) >>

\* A constructor whose getter is run for every value of e
GetterComboCorpus ==
    << Create, Descr(<<"get">>, <<"e">>, <<VarSet("g")>>, <<>>), Del >>

RunCorpora == {QueueCorpus, LateCorpus, SiblingCorpus, GatingCorpus, KeysCorpus,
               ComboCorpus, HookCorpus, NoProducerCorpus, ThrowingCorpus,
               GetterComboCorpus, NestedComboCorpus}

(***************************************************************************)
(* Hapi.run and the stages of the waterfall of doRun.                      *)
(***************************************************************************)
\* Hapi.loadInfo: an API that fails to load is recorded in the error list
LoadErr == [kind |-> "load", what |-> <<>>]

RunInit ==
    /\ mapis \in RunCorpora
    /\ testNames = NoNames
    /\ apis = <<>>
    /\ referencedApis = <<>>
    /\ apisToInsert = <<>>
    /\ idx = 0
    /\ nodes = <<>>
    /\ inserting = {}
    /\ errors \in {<<>>, <<[api |-> NoApi, err |-> LoadErr]>>}
    /\ phase = "loaded"
    /\ ctxs = <<>>
    /\ heap = <<>>
    /\ serialQueues = <<>>
    /\ NoCall

Cur == [ctxs |-> ctxs, heap |-> heap, queues |-> serialQueues, apis |-> apis]

\* The Hapi object as the planner's operators read it
H0 == [apis |-> apis, refs |-> referencedApis]

\* The runtime's step: R is what it leaves, ns the nodes it leaves
CommitWith(R, ns) ==
    /\ ctxs' = R.ctxs
    /\ heap' = R.heap
    /\ serialQueues' = R.queues
    /\ apis' = R.apis
    /\ nodes' = ns
    /\ UNCHANGED <<mapis, testNames, referencedApis, apisToInsert, idx, inserting,
                   errors, phase, fnVars>>

Commit(R) == CommitWith(R, nodes)

\* A run that goes on whatever the error list holds
RunStopsNever(errs) == FALSE

\* Hapi.run: if (!root || self.errors.length > 0) return
RunStops(errs) == Len(errs) > 0

\* Hapi.run, after its call of compile (the three actions above): nothing if
\* compile recorded errors, else the root context is run (it has no API: its
\* doRun is runChildren)
HapiRun ==
    /\ phase = "compiled"
    /\ IF RunStops(errors)
       THEN /\ phase' = "ended"
            /\ UNCHANGED <<mapis, testNames, apis, referencedApis, apisToInsert, idx,
                           nodes, inserting, errors, runVars, fnVars>>
       ELSE /\ phase' = "running"
            /\ \E R \in { RunChildren(nodes,
                              NewRunContext([ctxs |-> <<>>, heap |-> <<HapiEnv>>,
                                             queues |-> <<>>, apis |-> apis],
                                            1, Root, NoCtx, FALSE),
                              1) } :
                  /\ ctxs' = R.ctxs
                  /\ heap' = R.heap
                  /\ serialQueues' = R.queues
                  /\ apis' = R.apis
            /\ UNCHANGED <<mapis, testNames, referencedApis, apisToInsert, idx, nodes,
                           inserting, errors, fnVars>>

\* Stage 1, preRun: the getter's context shares the environment and ignores failures
PreRun(c) ==
    /\ ctxs[c].pc = "preRun"
    /\ LET preRun == nodes[ctxs[c].node].preRun
           R1 == NewRunContext(Ran(Cur, c, "preRun"), ctxs[c].vars, preRun, c, TRUE)
       IN IF preRun = NoNode
          THEN Commit([Cur EXCEPT !.ctxs[c].state = 1, !.ctxs[c].pc = "onBeforeRun"])
          ELSE Commit(Run(nodes, [R1 EXCEPT !.ctxs[c].pc = "preRunWait"], Len(R1.ctxs)))

\* The request of the API of context c cannot be resolved: it refers to a
\* variable that is not in the environment
Unresolved(c) ==
    \E i \in DOMAIN apis[nodes[ctxs[c].node].api].request :
        ~heap[ctxs[c].vars][apis[nodes[ctxs[c].node].api].request[i]].has

\* doHook: without a hook it calls back at once; the user function calls
\* back with or without an error, or throws; after a callback without error
\* the request is resolved, and an exception of resolve is the error
DoHook(c, stage, hook, okState, nextPc) ==
    IF ~hook
    THEN Commit([Ran(Cur, c, stage) EXCEPT
                    !.ctxs[c].state = IF okState = 0 THEN @ ELSE okState,
                    !.ctxs[c].pc = nextPc])
    ELSE \E outcome \in {"ok", "err"} :
            LET err == IF outcome = "err" THEN <<c, stage>>
                       ELSE IF Unresolved(c) THEN <<c, "resolve">> ELSE NoError
            IN Commit([CalledBack(Ran(Cur, c, stage), c, stage, err) EXCEPT
                          !.ctxs[c].state = IF err = NoError /\ okState # 0
                                            THEN okState ELSE @,
                          !.ctxs[c].pc = nextPc])

\* Stage 2, onBeforeRun
OnBeforeRun(c) ==
    /\ ctxs[c].pc = "onBeforeRun"
    /\ IF ctxs[c].state < 1
       THEN Commit([Cur EXCEPT !.ctxs[c].pc = "before"])
       ELSE DoHook(c, "onBeforeRun", apis[nodes[ctxs[c].node].api].onBeforeRun, 2, "before")

\* Stage 3, before
Before(c) ==
    /\ ctxs[c].pc = "before"
    /\ IF ctxs[c].state < 2
       THEN Commit([Cur EXCEPT !.ctxs[c].pc = "main"])
       ELSE Commit(RunHook(nodes, Cur, c, "before"))

\* runHook2 of the hook at ctx.index of the chain.  A user function is
\* invoked on the HookContext, which holds the context's environment.  For a
\* string, the API of that name is found (findApi throws when there is
\* none, and nothing catches it), and the hook function made for it is
\* invoked: a new node for the API under the context's node, which is run in
\* a new context on the environment of the HookContext.  A hook in object
\* form keeps the hook function in place of the name: the next time the
\* object is run, by whatever context, that function is invoked, with the
\* self (node, parent of the new context) and the cb it was made with
Hook(c) ==
    /\ ctxs[c].pc = "hook"
    /\ LET mine == nodes[ctxs[c].node].api
           hook == apis[mine][ctxs[c].hookStage][ctxs[c].hookIdx]
           name == IF IsObject(hook) THEN Tail(hook) ELSE hook
           a == FindApi(H0, name)
           made == { f \in apis[mine].closures :
                        f.stage = ctxs[c].hookStage /\ f.idx = ctxs[c].hookIdx }
           self == IF made = {} THEN c ELSE (CHOOSE f \in made : TRUE).self
           ns == NewNode(H0, nodes, a, ctxs[self].node)
           R1 == [Cur EXCEPT !.ctxs[c].hooks = Append(@,
                     [stage |-> ctxs[c].hookStage, idx |-> ctxs[c].hookIdx,
                      back |-> FALSE, break |-> FALSE, raised |-> FALSE,
                      run |-> IF hook = <<"fn">> THEN NoCtx ELSE Len(ctxs) + 1]),
                   !.ctxs[c].pc = "hookWait"]
           R2 == NewRunContext(
                    [R1 EXCEPT !.apis[mine].closures =
                        IF IsObject(hook) /\ made = {}
                        THEN @ \cup {[stage |-> ctxs[c].hookStage,
                                      idx |-> ctxs[c].hookIdx, self |-> c]}
                        ELSE @],
                    ctxs[c].vars, Len(ns), self, FALSE)
           k == Len(R2.ctxs)
       IN IF hook = <<"fn">> THEN Commit(R1)
          ELSE IF a = NoApi THEN Commit([Cur EXCEPT !.ctxs[c].pc = "thrown"])
          ELSE CommitWith(Run(ns, [R2 EXCEPT !.ctxs[k].isHook = TRUE,
                                            !.ctxs[k].caller = c,
                                            !.ctxs[c].pc = "hookRun"], k), ns)

\* runHook2, the catch around the call of a user function:
\* cb(ctx.fatal ? ex : null); nothing sets ctx.fatal
Caught(fatal, ex) == IF fatal THEN ex ELSE NoError

\* The user function of a hook calls back: having done nothing, having set a
\* variable, or having called setBreak(true); or it throws, or calls back at
\* once with an error, which the callback it was given throws: runHook2
\* catches the exception and calls back
HookFunction(c) ==
    /\ ctxs[c].pc = "hookWait"
    /\ \E outcome \in {"ok", "set", "break", "err"} :
          Commit(HookCallback(nodes,
                    [Cur EXCEPT
                        !.heap[ctxs[c].vars] = IF outcome = "set" THEN SetVar(@, "h", c) ELSE @,
                        !.ctxs[c].break = IF outcome = "break" THEN TRUE ELSE @,
                        !.ctxs[c].hooks[Len(ctxs[c].hooks)].raised = (outcome = "err")],
                    c, IF outcome = "err" THEN Caught(FALSE, <<c, "hook">>) ELSE NoError))

\* A main stage that no earlier failure stops
SkipMainNever(ctx) == FALSE

\* doRun, main: if (state < 3) return cb()
SkipMain(ctx) == ctx.state < 3

\* Stage 4, main: sendRequest resolves the request (which fails when a
\* variable of the request is not in the environment) and sends it
Main(c) ==
    /\ ctxs[c].pc = "main"
    /\ IF SkipMain(ctxs[c])
       THEN Commit([Cur EXCEPT !.ctxs[c].pc = "afterApi"])
       ELSE IF Unresolved(c)
       THEN Commit([CalledBack(Ran(Cur, c, "main"), c, "main", <<c, "resolve">>) EXCEPT
                       !.ctxs[c].pc = "afterApi"])
       ELSE Commit([Ran(Cur, c, "main") EXCEPT
                       !.ctxs[c].opts = TRUE, !.ctxs[c].pc = "mainWait"])

\* The response arrives (_sendRequest, handleResponse): the status is not the
\* expected one, which the context keeps in statusCode; or the actions are
\* performed and the body is valid; or the actions are performed and the
\* body is not valid.  Only the callback of a string hook reads statusCode,
\* from the context it ran: for every other context one unexpected status
\* stands for all
Response(c) ==
    /\ ctxs[c].pc = "mainWait"
    /\ \E outcome \in {"ok", "status", "body"} \cup
                       (IF ctxs[c].isHook THEN {"notFound"} ELSE {}) :
          LET api == apis[nodes[ctxs[c].node].api]
              mismatch == outcome \in {"status", "notFound"}
              env == IF mismatch THEN heap[ctxs[c].vars]
                     ELSE PerformActions(heap[ctxs[c].vars], api.actions, c)
              err == IF outcome = "ok" THEN NoError
                     ELSE IF mismatch THEN <<c, "status">> ELSE <<c, outcome>>
          IN Commit([CalledBack(Cur, c, "main", err) EXCEPT
                !.heap[ctxs[c].vars] = env,
                !.ctxs[c].state = IF outcome = "ok" THEN 4 ELSE @,
                !.ctxs[c].statusCode = IF outcome = "status" THEN ServerError
                                       ELSE IF outcome = "notFound" THEN NotFound ELSE @,
                !.ctxs[c].pc = "afterApi"])

\* Stage 5, afterApi
AfterApi(c) ==
    /\ ctxs[c].pc = "afterApi"
    /\ IF ctxs[c].state < 4
       THEN Commit([Cur EXCEPT !.ctxs[c].pc = "children"])
       ELSE Commit(RunHook(nodes, Cur, c, "afterApi"))

\* Stage 6, children
Children(c) ==
    /\ ctxs[c].pc = "children"
    /\ IF ctxs[c].state < 5
       THEN Commit([Cur EXCEPT !.ctxs[c].pc = "afterAll"])
       ELSE Commit(RunChildren(nodes, Ran(Cur, c, "children"), c))

\* afterAll
AfterAll(c) ==
    /\ ctxs[c].pc = "afterAll"
    /\ IF ctxs[c].state < 5
       THEN Commit([Cur EXCEPT !.ctxs[c].pc = "onAfterRun"])
       ELSE Commit(RunHook(nodes, Cur, c, "afterAll"))

\* onAfterRun
OnAfterRun(c) ==
    /\ ctxs[c].pc = "onAfterRun"
    /\ IF ctxs[c].state < 2
       THEN Commit([Cur EXCEPT !.ctxs[c].pc = "postRun"])
       ELSE DoHook(c, "onAfterRun", apis[nodes[ctxs[c].node].api].onAfterRun, 0, "postRun")

\* A postRun that is given up when the main request did not succeed
SkipPostRunUnlessMain(ns, ctx) == ns[ctx.node].postRun = NoNode \/ ctx.state < 4

\* doRun: if (!node.postRun || (state < 3)) return cb()
SkipPostRun(ns, ctx) == ns[ctx.node].postRun = NoNode \/ ctx.state < 3

\* postRun: the destructor's context shares the environment
PostRun(c) ==
    /\ ctxs[c].pc = "postRun"
    /\ LET postRun == nodes[ctxs[c].node].postRun
           R1 == NewRunContext(Ran(Cur, c, "postRun"), ctxs[c].vars, postRun, c, FALSE)
       IN IF SkipPostRun(nodes, ctxs[c])
          THEN Commit([Cur EXCEPT !.ctxs[c].pc = "release"])
          ELSE Commit(Run(nodes, [R1 EXCEPT !.ctxs[c].pc = "postRunWait"], Len(R1.ctxs)))
\* The last stage: a context that entered the queue itself removes the head
\* and lets the next one run; then the context's callback is called
Release(c) ==
    /\ ctxs[c].pc = "release"
    /\ LET queue == serialQueues[ctxs[c].queueName]
           rest == Tail(queue)
           R1 == [Cur EXCEPT !.queues[ctxs[c].queueName] = rest]
           R2 == IF rest = <<>> THEN R1 ELSE DoRun(nodes, R1, Head(rest), TRUE)
       IN IF ~ctxs[c].queue THEN Commit(Completion(nodes, Cur, c))
          ELSE IF Head(queue) # c
          THEN Commit([R1 EXCEPT !.ctxs[c].pc = "program error"])
          ELSE Commit(Completion(nodes, R2, c))

RunNext ==
    \/ CompileBegin
    \/ CompileInsert
    \/ CompileEnd
    \/ HapiRun
    \/ \E c \in DOMAIN ctxs : PreRun(c)
    \/ \E c \in DOMAIN ctxs : OnBeforeRun(c)
    \/ \E c \in DOMAIN ctxs : Before(c)
    \/ \E c \in DOMAIN ctxs : Hook(c)
    \/ \E c \in DOMAIN ctxs : HookFunction(c)
    \/ \E c \in DOMAIN ctxs : Main(c)
    \/ \E c \in DOMAIN ctxs : Response(c)
    \/ \E c \in DOMAIN ctxs : AfterApi(c)
    \/ \E c \in DOMAIN ctxs : Children(c)
    \/ \E c \in DOMAIN ctxs : AfterAll(c)
    \/ \E c \in DOMAIN ctxs : OnAfterRun(c)
    \/ \E c \in DOMAIN ctxs : PostRun(c)
    \/ \E c \in DOMAIN ctxs : Release(c)

RunSpec == RunInit /\ [][RunNext]_vars

\* The run of the corpus whose API has a hook in object form
ObjectHookInit ==
    /\ mapis = ObjectHookCorpus
    /\ testNames = NoNames
    /\ apis = <<>>
    /\ referencedApis = <<>>
    /\ apisToInsert = <<>>
    /\ idx = 0
    /\ nodes = <<>>
    /\ inserting = {}
    /\ errors \in {<<>>, <<[api |-> NoApi, err |-> LoadErr]>>}
    /\ phase = "loaded"
    /\ ctxs = <<>>
    /\ heap = <<>>
    /\ serialQueues = <<>>
    /\ NoCall

ObjectHookSpec == ObjectHookInit /\ [][RunNext]_vars

(***************************************************************************)
(* Reading the tree.                                                       *)
(***************************************************************************)
ChildNodes(ns, n) == Range(ns[n].children)

RECURSIVE SubTree(_, _)
SubTree(ns, n) == {n} \cup UNION { SubTree(ns, c) : c \in ChildNodes(ns, n) }

\* The plan nodes: reached from the root through children, the root excluded
PlanNodes == IF nodes = <<>> THEN {} ELSE SubTree(nodes, Root) \ {Root}

\* Proper ancestors of node n
RECURSIVE AncestorsOf(_, _)
AncestorsOf(ns, n) ==
    IF ns[n].parent = NoNode THEN {}
    ELSE {ns[n].parent} \cup AncestorsOf(ns, ns[n].parent)

ApiOf(n) == apis[nodes[n].api]

Produces(n, v) == nodes[n].api # NoApi /\ Includes(ApiOf(n).produces, v)
Deletes(n, v) == nodes[n].api # NoApi /\ Includes(ApiOf(n).deletes, v)
Predefined(a, v) == Includes(GetPredefinedVars(a), v)

Depth(n) == Cardinality(AncestorsOf(nodes, n))

(***************************************************************************)
(* C1  Dependency completeness: every variable consumed by the API of a    *)
(* plan node is produced by the API of a proper ancestor of the node or is *)
(* a predefined variable.                                                  *)
(***************************************************************************)
DependencyComplete ==
    \A n \in PlanNodes :
        \A v \in Range(ApiOf(n).consumes) :
            \/ Predefined(ApiOf(n), v)
            \/ \E m \in AncestorsOf(nodes, n) : Produces(m, v)

\* A finished plan in which a node three levels down needs two variables,
\* made by two different ancestors
DependencyCompleteWitness ==
    /\ phase = "compiled"
    /\ \E n \in PlanNodes :
          /\ Depth(n) = 3
          /\ \E v, w \in Range(ApiOf(n).consumes) :
                /\ v # w
                /\ ~Predefined(ApiOf(n), v) /\ ~Predefined(ApiOf(n), w)
                /\ \E m1, m2 \in AncestorsOf(nodes, n) :
                      m1 # m2 /\ Produces(m1, v) /\ Produces(m2, w)

(***************************************************************************)
(* C2  Defined before use, deletions included: for every plan node and     *)
(* every variable its API consumes that is not predefined, some ancestor   *)
(* produces the variable and no ancestor closer to the node deletes it.    *)
(***************************************************************************)
DefinedBeforeUse ==
    \A n \in PlanNodes :
        \A v \in Range(ApiOf(n).consumes) :
            \/ Predefined(ApiOf(n), v)
            \/ \E m \in AncestorsOf(nodes, n) :
                  /\ Produces(m, v)
                  /\ \A k \in AncestorsOf(nodes, n) :
                        Depth(k) > Depth(m) => ~Deletes(k, v)

(***************************************************************************)
(* C6  Non-insertability of referenced APIs.  As the code has it: an API   *)
(* is insertable if and only if no referenced API name is a prefix of its  *)
(* name, the referenced names being every var_new get/delete name and      *)
(* every string hook name of the corpus; and no plan node hosts an API     *)
(* that is not insertable.                                                 *)
(***************************************************************************)
\* The referenced names, read off the descriptors
RefNames ==
    UNION { { act.get : act \in { x \in Range(d.actions) : x.kind = "var_new" } }
            \cup { act.delete : act \in { x \in Range(d.actions) : x.kind = "var_new" } }
            \cup { h \in Range(d.before) : h # <<"fn">> }
            : d \in Range(mapis) }

StartsWithReferenced(name) == \E r \in RefNames : StartsWith(name, r)
PrefixOfReferenced(name) == \E r \in RefNames : StartsWith(r, name)

ReferencedNeverPlanned ==
    phase \in {"inserting", "compiled"} =>
        /\ \A a \in DOMAIN apis :
              IsInsertableApi(H0, a) <=> ~StartsWithReferenced(apis[a].name)
        /\ \A n \in PlanNodes : ~StartsWithReferenced(ApiOf(n).name)

\* The claim as written: insertable if and only if the API's own name is not a
\* prefix of a referenced name
InsertableIffNotPrefix ==
    phase \in {"inserting", "compiled"} =>
        /\ \A a \in DOMAIN apis :
              IsInsertableApi(H0, a) <=> ~PrefixOfReferenced(apis[a].name)
        /\ \A n \in PlanNodes : ~PrefixOfReferenced(ApiOf(n).name)

\* A finished plan with a constructor node whose satellites host the referenced
\* getter and destructor, and a requested variant of the getter ("get-1") that
\* no plan node hosts
ReferencedNeverPlannedWitness ==
    /\ phase = "compiled"
    /\ \E n \in PlanNodes :
          /\ nodes[n].preRun # NoNode
          /\ StartsWithReferenced(ApiOf(nodes[n].preRun).name)
          /\ StartsWithReferenced(ApiOf(nodes[n].postRun).name)
    /\ \E i \in Range(apisToInsert) :
          /\ \E r \in RefNames : StartsWith(apis[i].name, r) /\ apis[i].name # r
          /\ \A n \in PlanNodes : nodes[n].api # i

(***************************************************************************)
(* C7  Maximum coverage: after compile, every requested insertable API is  *)
(* a child of every plan node at which its consumes are newly satisfied    *)
(* (satisfied there, not at the parent) unless the node or an ancestor     *)
(* hosts it.  (Stated for compilations that end without an error.)         *)
(***************************************************************************)
SatisfiedAt(a, n) ==
    \A v \in Range(apis[a].consumes) :
        \/ Predefined(apis[a], v)
        \/ \E m \in AncestorsOf(nodes, n) \cup {n} : Produces(m, v)

MaximumCoverage ==
    (phase = "compiled" /\ errors = <<>>) =>
        \A a \in Range(apisToInsert) :
            IsInsertableApi(H0, a) =>
                \A n \in PlanNodes :
                    ( /\ SatisfiedAt(a, n)
                      /\ ~SatisfiedAt(a, nodes[n].parent)
                      /\ \A m \in AncestorsOf(nodes, n) \cup {n} : nodes[m].api # a )
                    => \E c \in ChildNodes(nodes, n) : nodes[c].api = a

(***************************************************************************)
(* C8  Producer seeding.  In a step root.insertApi(a) of compile that      *)
(* returns without an error: whenever insertApi(b) at a node N found       *)
(* undefined variables none of which a child subtree of N produces,        *)
(* insertApi has been applied at N to every API of the corpus that         *)
(* produces b's first undefined variable, requested or not, and b is       *)
(* hosted in N's subtree below a node whose API produces that variable.    *)
(***************************************************************************)
ProducersOf(v) == { p \in DOMAIN apis : v \in Range(apis[p].produces) }

\* The calls of the step about to be taken that insert producers
SeedingCalls ==
    IF phase = "inserting" /\ idx <= Len(apisToInsert)
    THEN InsertApi(H0, [nodes |-> nodes, inserting |-> inserting, err |-> NoErr,
                        seeded |-> {}],
                   Root, apisToInsert[idx], 1).seeded
    ELSE {}

\* After the step: call s = <<N, b, v>> has seeded the producers of v at N
Seeded(s) ==
    /\ \A p \in ProducersOf(s[3]) : <<s[1], apis[p].name>> \in inserting'
    /\ \E n \in SubTree(nodes', s[1]) \ {s[1]} :
          /\ nodes'[n].api = s[2]
          /\ \E m \in AncestorsOf(nodes', n) \cap SubTree(nodes', s[1]) :
                m # s[1] /\ nodes'[m].api \in ProducersOf(s[3])

HasVarNew(a) == apis[a].var_new # NoVarNew

MissingPeer(a) ==
    IF FindApi(H0, apis[a].var_new.get) = NoApi THEN apis[a].var_new.get
    ELSE IF FindApi(H0, apis[a].var_new.delete) = NoApi THEN apis[a].var_new.delete
    ELSE <<>>

SatellitesOf(n) ==
    LET vn == ApiOf(n).var_new
        pre == nodes[n].preRun
        post == nodes[n].postRun
    IN /\ pre # NoNode /\ post # NoNode
       /\ nodes[pre].parent = n /\ nodes[post].parent = n
       /\ ApiOf(pre).name = vn.get
       /\ Len(nodes[pre].children) = 1
       /\ ApiOf(nodes[pre].children[1]).name = vn.delete
       /\ nodes[nodes[pre].children[1]].children = <<>>
       /\ ApiOf(post).name = vn.delete
       /\ nodes[post].children = <<>>

ConstructorSatellites ==
    /\ \A n \in PlanNodes :
          IF HasVarNew(nodes[n].api) THEN SatellitesOf(n)
          ELSE nodes[n].preRun = NoNode /\ nodes[n].postRun = NoNode
    /\ \A n \in DOMAIN nodes :
          (nodes[n].api # NoApi /\ HasVarNew(nodes[n].api)
             /\ MissingPeer(nodes[n].api) # <<>>)
          => /\ n \notin PlanNodes
             /\ \E i \in DOMAIN errors :
                   errors[i].err = FindApiErr(MissingPeer(nodes[n].api))

\* A finished plan with a constructor node, a later insertion below it, and the
\* getter among the requested APIs
ConstructorSatellitesWitness ==
    /\ phase = "compiled"
    /\ \E n \in PlanNodes :
          /\ HasVarNew(nodes[n].api)
          /\ nodes[n].children # <<>>
          /\ \E i \in Range(apisToInsert) : apis[i].name = ApiOf(nodes[n].preRun).name

(***************************************************************************)
(* Reading the run.                                                        *)
(***************************************************************************)
RECURSIVE CtxAncestors(_)
CtxAncestors(c) ==
    IF ctxs[c].parent = NoCtx THEN {}
    ELSE {ctxs[c].parent} \cup CtxAncestors(ctxs[c].parent)

\* Context c and the contexts started, directly or not, from c
SubCtxs(c) == { d \in DOMAIN ctxs : d = c \/ c \in CtxAncestors(d) }

\* c was started by runChildren of its parent
IsChildCtx(c) ==
    /\ ctxs[c].parent # NoCtx
    /\ Includes(nodes[ctxs[ctxs[c].parent].node].children, ctxs[c].node)

\* p runs the postRun destructor of k
IsPostRunOf(p, k) ==
    /\ ctxs[p].parent = k
    /\ ctxs[p].node = nodes[ctxs[k].node].postRun

Siblings(c1, c2) ==
    /\ c1 # c2
    /\ IsChildCtx(c1) /\ IsChildCtx(c2)
    /\ ctxs[c1].parent = ctxs[c2].parent

EnvOf(c) == heap[ctxs[c].vars]

(***************************************************************************)
(* C3  Serialization safety: of two contexts with the same queue name, the *)
(* one that came to doRun later has not sent its main request unless the   *)
(* waterfall of the earlier one has ended (postRun stage and release       *)
(* done, callback called).                                                 *)
(***************************************************************************)
SerializationSafety ==
    \A c1, c2 \in DOMAIN ctxs :
        ( /\ c1 < c2
          /\ ctxs[c1].queueName # NoKey
          /\ ctxs[c1].queueName = ctxs[c2].queueName
          /\ ctxs[c2].opts )
        => ctxs[c1].pc = "done"

\* A constructor has run to its end, its postRun destructor sent, and a
\* context that waited in the same queue has sent its main request
SerializationSafetyWitness ==
    \E c1, c2 \in DOMAIN ctxs :
        /\ c1 < c2
        /\ ctxs[c1].queueName # NoKey
        /\ ctxs[c1].queueName = ctxs[c2].queueName
        /\ ctxs[c1].pc = "done"
        /\ \E p \in DOMAIN ctxs : IsPostRunOf(p, c1) /\ ctxs[p].opts
        /\ ctxs[c2].opts

(***************************************************************************)
(* C4  Queue liveness, in the form a finite run refutes: once the run has  *)
(* started, whenever no step is possible (no request or hook is pending,   *)
(* no stage is due), every context has completed.                          *)
(***************************************************************************)
QueueLiveness ==
    (phase = "running" /\ ~ENABLED RunNext) =>
        \A c \in DOMAIN ctxs : ctxs[c].pc = "done"

(***************************************************************************)
(* C5  Environment isolation: two contexts started by runChildren of one   *)
(* parent have environments of their own (not the parent's, not each       *)
(* other's), and in no environment of a context of one sibling's subtree   *)
(* is there a variable that was last set, renamed or deleted by a context  *)
(* of the other sibling's subtree.                                         *)
(***************************************************************************)
EnvironmentIsolation ==
    \A c1, c2 \in DOMAIN ctxs :
        Siblings(c1, c2) =>
            /\ ctxs[c1].vars # ctxs[c2].vars
            /\ ctxs[c1].vars # ctxs[ctxs[c1].parent].vars
            /\ \A d \in SubCtxs(c2) : \A v \in Vars : EnvOf(d)[v].by \notin SubCtxs(c1)

\* Two siblings after their responses: one has renamed g to y, the other's
\* hook has set h; neither sees what the other did
EnvironmentIsolationWitness ==
    \E c1, c2 \in DOMAIN ctxs :
        /\ Siblings(c1, c2)
        /\ ctxs[c1].state >= 4 /\ ctxs[c2].state >= 4
        /\ EnvOf(c1)["y"].by = c1 /\ ~EnvOf(c1)["g"].has
        /\ EnvOf(c2)["h"].by = c2 /\ EnvOf(c2)["g"].has /\ ~EnvOf(c2)["y"].has
        /\ ~EnvOf(c1)["h"].has

(***************************************************************************)
(* C10  postRun after the whole subtree: when the postRun destructor of a  *)
(* context K has sent its request, every context in the subtrees of the    *)
(* children of K has completed its waterfall.                              *)
(***************************************************************************)
PostRunAfterSubtree ==
    \A k, p \in DOMAIN ctxs :
        (IsPostRunOf(p, k) /\ ctxs[p].opts) =>
            \A e \in DOMAIN ctxs :
                (IsChildCtx(e) /\ ctxs[e].parent = k) =>
                    \A d \in SubCtxs(e) : ctxs[d].pc = "done"

(***************************************************************************)
(* C11  preRun failures are ignored.  In every state of a run: once the    *)
(* context of a node's preRun has completed, whatever failed in it or      *)
(* below it, the node's context has state 1 or more (the stages after      *)
(* preRun are not skipped on its account); the error the node's context    *)
(* holds for its callback never comes from the preRun's contexts; and a    *)
(* context that has passed its main stage has dispatched the request       *)
(* unless a stage of its own failed.                                       *)
(***************************************************************************)
PreRunCtxsOf(p) ==
    { k \in DOMAIN ctxs : /\ ctxs[k].parent = p
                          /\ ctxs[k].node = nodes[ctxs[p].node].preRun
                          /\ ctxs[k].series = NoCtx }

\* The contexts of the run of k: k, the contexts of its combinations, and
\* what they started
RunCtxs(k) ==
    SubCtxs(k) \cup UNION { SubCtxs(i) : i \in { j \in DOMAIN ctxs : ctxs[j].series = k } }

PastMain == {"mainWait", "afterApi", "children", "childrenWait", "afterAll",
             "onAfterRun", "postRun", "postRunWait", "release", "done"}

PreRunFailuresIgnored ==
    phase = "running" =>
        \A p \in DOMAIN ctxs : \A k \in PreRunCtxsOf(p) :
            /\ ctxs[k].pc = "done" => ctxs[p].state >= 1
            /\ ctxs[p].cbErr # NoError => ctxs[p].cbErr[1] \notin RunCtxs(k)
            /\ (ctxs[p].pc \in PastMain \/ ctxs[p].hookStage \in {"afterApi", "afterAll"}) =>
                  \/ ctxs[p].opts
                  \/ ctxs[p].cbErr # NoError /\ ctxs[p].cbErr[1] = p

\* A getter failed in preRun; its node sent the main request and ended well
PreRunFailuresIgnoredWitness ==
    /\ phase = "running"
    /\ \E p \in DOMAIN ctxs : \E k \in PreRunCtxsOf(p) :
          /\ ctxs[k].pc = "done"
          /\ ctxs[k].cbErr # NoError
          /\ ctxs[p].opts
          /\ ctxs[p].pc = "done"
          /\ ctxs[p].cbErr = NoError

(***************************************************************************)
(* C12  Cleanup gating.  In every context that has come past the stage:    *)
(* afterAll was executed if and only if afterApi was executed and called   *)
(* back without error; onAfterRun was executed if and only if onBeforeRun  *)
(* was executed and called back without error; postRun was executed if and *)
(* only if the node has a postRun and before was executed and called back  *)
(* without error.                                                          *)
(***************************************************************************)
ApiCtxs == { c \in DOMAIN ctxs : nodes[ctxs[c].node].api # NoApi /\ ctxs[c].combos = <<>> }

FailedStages(c) == { ctxs[c].errs[i].stage : i \in DOMAIN ctxs[c].errs }

Succeeded(c, stage) == stage \in ctxs[c].ran /\ stage \notin FailedStages(c)

PastPostRun == {"postRunWait", "release", "done"}
PastOnAfterRun == PastPostRun \cup {"postRun"}
PastAfterAll == PastOnAfterRun \cup {"onAfterRun"}

CleanupGating ==
    phase = "running" =>
        \A c \in ApiCtxs :
            /\ ctxs[c].pc \in PastAfterAll =>
                  ("afterAll" \in ctxs[c].ran <=> Succeeded(c, "afterApi"))
            /\ ctxs[c].pc \in PastOnAfterRun =>
                  ("onAfterRun" \in ctxs[c].ran <=> Succeeded(c, "onBeforeRun"))
            /\ ctxs[c].pc \in PastPostRun =>
                  ("postRun" \in ctxs[c].ran <=>
                      nodes[ctxs[c].node].postRun # NoNode /\ Succeeded(c, "before"))

\* The main request of a constructor failed: afterAll was skipped, onAfterRun
\* and the postRun destructor were run
CleanupGatingWitness ==
    /\ phase = "running"
    /\ \E c \in ApiCtxs :
          /\ ctxs[c].pc = "done"
          /\ "main" \in FailedStages(c)
          /\ "afterAll" \notin ctxs[c].ran
          /\ {"onAfterRun", "postRun"} \subseteq ctxs[c].ran
          /\ apis[nodes[ctxs[c].node].api].onAfterRun

(***************************************************************************)
(* C13  Forward gating, parent before child.  In every state of a run: a   *)
(* context whose main request was dispatched has executed onBeforeRun and  *)
(* before and both called back without error; a context that executed      *)
(* afterApi has executed main, which called back without error; and a      *)
(* context started by runChildren of a context with an API exists only if  *)
(* afterApi of that context was executed and called back without error.    *)
(***************************************************************************)
ForwardGating ==
    phase = "running" =>
        \A c \in ApiCtxs :
            /\ ctxs[c].opts => Succeeded(c, "onBeforeRun") /\ Succeeded(c, "before")
            /\ "afterApi" \in ctxs[c].ran => Succeeded(c, "main")
            /\ (IsChildCtx(c) /\ ctxs[c].parent \in ApiCtxs) =>
                   Succeeded(ctxs[c].parent, "afterApi")

\* A child whose onBeforeRun function failed has ended without a request,
\* below a parent whose request was sent
ForwardGatingWitness ==
    /\ phase = "running"
    /\ \E c \in ApiCtxs :
          /\ IsChildCtx(c) /\ ctxs[c].parent \in ApiCtxs
          /\ ctxs[ctxs[c].parent].opts
          /\ "onBeforeRun" \in FailedStages(c)
          /\ ctxs[c].pc = "done"
          /\ ~ctxs[c].opts

(***************************************************************************)
(* C14  First error wins.  In every state of a run, the error a context    *)
(* holds for its completion callback is the error of the first stage of    *)
(* its waterfall that called back with an error, and it holds no error     *)
(* exactly when no stage did.                                              *)
(***************************************************************************)
FirstErrorWins ==
    phase = "running" =>
        \A c \in ApiCtxs :
            ctxs[c].cbErr = IF ctxs[c].errs = <<>> THEN NoError ELSE ctxs[c].errs[1].err

\* The main request failed, then a cleanup stage failed with another error;
\* the context has completed
FirstErrorWinsWitness ==
    /\ phase = "running"
    /\ \E c \in ApiCtxs :
          /\ ctxs[c].pc = "done"
          /\ Len(ctxs[c].errs) >= 2
          /\ ctxs[c].errs[1].stage = "main"
          /\ ctxs[c].errs[2].stage \in {"onAfterRun", "postRun"}
          /\ ctxs[c].errs[2].err # ctxs[c].errs[1].err

(***************************************************************************)
(* C15  No run on errors.  In every state: when the error list holds an    *)
(* error of loading or of compilation, there is no run context (and so no  *)
(* request was dispatched), and Hapi.run ends without running.             *)
(***************************************************************************)
NoRunOnErrors ==
    errors # <<>> => ctxs = <<>> /\ phase # "running"

\* Hapi.run has returned on a compile error, on a load error
NoRunOnErrorsWitness ==
    /\ phase = "ended"
    /\ ctxs = <<>>
    /\ \E i \in DOMAIN errors : errors[i].err.kind = "noProducers"
    /\ \A i \in DOMAIN errors : errors[i].err.kind # "load"

(***************************************************************************)
(* C16  No producer.  In every step root.insertApi(a) of compile: when     *)
(* insertApi(b) at a node has to seed producers for b's first undefined    *)
(* variable v and no API of the corpus produces v, the step appends to the *)
(* error list the 'no producers' error that names v, recorded for a; after *)
(* the step no node of the tree hosts b; and compile has moved on to the   *)
(* next requested API.                                                     *)
(***************************************************************************)
NoProducerFails ==
    [][\A s \in SeedingCalls :
          ProducersOf(s[3]) = {} =>
             /\ errors' = Append(errors, [api |-> apisToInsert[idx],
                                          err |-> [kind |-> "noProducers",
                                                   what |-> <<s[3]>>]])
             /\ \A n \in DOMAIN nodes' : nodes'[n].api # s[2]
             /\ idx' = idx + 1
             /\ phase' = "inserting"]_planVars

\* A requested API failed for want of a producer, and a requested API that
\* comes after it in the corpus is in the tree
NoProducerFailsWitness ==
    /\ phase = "compiled"
    /\ \E e \in DOMAIN errors : \E i, j \in DOMAIN apisToInsert :
          /\ errors[e].err.kind = "noProducers"
          /\ apisToInsert[i] = errors[e].api
          /\ i < j
          /\ \E n \in PlanNodes : nodes[n].api = apisToInsert[j]
          /\ \A n \in DOMAIN nodes : nodes[n].api # errors[e].api

(***************************************************************************)
(* C17  Compile terminates.  The re-entrancy guard stops the recursion of  *)
(* insertApi: no root.insertApi call of compile ends by exhausting the     *)
(* call stack.                                                             *)
(***************************************************************************)
CompileTerminates ==
    \A i \in DOMAIN errors : errors[i].err # RangeErr

(***************************************************************************)
(* C18  Independent keys run in parallel.  In every state of a run, a      *)
(* suspended context has a queue name and the queue of that name holds     *)
(* another context that entered it with the same name: a context whose     *)
(* API has no serial_vars, or whose name is that of no queued context, is  *)
(* not suspended.                                                          *)
(***************************************************************************)
IndependentKeys ==
    phase = "running" =>
        \A c \in ApiCtxs :
            ctxs[c].pc = "waiting" =>
                /\ apis[nodes[ctxs[c].node].api].serial_vars # <<>>
                /\ ctxs[c].queueName # NoKey
                /\ ctxs[c].queueName \in DOMAIN serialQueues
                /\ \E d \in Range(serialQueues[ctxs[c].queueName]) :
                      d # c /\ ctxs[d].queueName = ctxs[c].queueName

\* Two contexts with different queue names await the response to their main
\* request, while a third waits in the queue of one of them
IndependentKeysWitness ==
    /\ phase = "running"
    /\ \E c, d, e \in ApiCtxs :
          /\ ctxs[c].pc = "mainWait" /\ ctxs[d].pc = "mainWait"
          /\ ctxs[c].queueName # NoKey /\ ctxs[d].queueName # NoKey
          /\ ctxs[c].queueName # ctxs[d].queueName
          /\ ctxs[e].pc = "waiting" /\ ctxs[e].queueName = ctxs[c].queueName

(***************************************************************************)
(* C19  Combinations are sequential.  In every state of a run, for the     *)
(* contexts of the variable combinations of one run: the context of        *)
(* combination i has the i-th value of the enumerated variable in an       *)
(* environment of its own (not that of the run, not that of another        *)
(* combination, and never written from another combination's subtree),     *)
(* and the context of a later combination exists only when the context of  *)
(* every earlier one has called back.                                      *)
(***************************************************************************)
CombosOf(d) == { k \in DOMAIN ctxs : ctxs[k].series = d }

CombinationsSequential ==
    phase = "running" =>
        \A d \in DOMAIN ctxs : \A k1, k2 \in CombosOf(d) :
            /\ ctxs[k1].vars # ctxs[d].vars
            /\ EnvOf(d)["e"].isArray
            /\ ~EnvOf(k1)["e"].isArray
            /\ EnvOf(k1)["e"].val = EnvOf(d)["e"].elems[ctxs[k1].index + 1]
            /\ k1 # k2 =>
                  /\ ctxs[k1].index # ctxs[k2].index
                  /\ ctxs[k1].vars # ctxs[k2].vars
                  /\ \A v \in Vars : EnvOf(k1)[v].by \notin SubCtxs(k2)
            /\ ctxs[k1].index < ctxs[k2].index => ctxs[k1].pc = "done"

\* Both combinations of a run have called back, each after its response
\* set x in its own environment
CombinationsSequentialWitness ==
    /\ phase = "running"
    /\ \E d \in DOMAIN ctxs : \E k1, k2 \in CombosOf(d) :
          /\ ctxs[k1].index = 0 /\ ctxs[k2].index = 1
          /\ ctxs[k1].pc = "done" /\ ctxs[k2].pc = "done" /\ ctxs[d].pc = "done"
          /\ EnvOf(k1)["x"].by = k1 /\ EnvOf(k2)["x"].by = k2
          /\ EnvOf(k1)["e"].val = 1 /\ EnvOf(k2)["e"].val = 2

(***************************************************************************)
(* C20: the hooks of a chain run in the order of the list, each one only   *)
(* after the one before it called back; after a hook that called           *)
(* setBreak(true) and called back without error no later hook of the chain *)
(* runs, the hook stage ends without error and the waterfall goes on: when *)
(* the chain is the before chain, the main stage is run.                   *)
(***************************************************************************)
\* The hook of context c that was invoked last in the chain of the stage
LastHook(c, stage) ==
    LET h == ctxs[c].hooks
        is == { i \in DOMAIN h : h[i].stage = stage }
    IN h[CHOOSE i \in is : \A j \in is : j <= i]

\* The chain of the stage was left by a hook that set the break flag
Broke(c, stage) ==
    /\ \E i \in DOMAIN ctxs[c].hooks : ctxs[c].hooks[i].stage = stage
    /\ LastHook(c, stage).back
    /\ LastHook(c, stage).break

HookBreak ==
    \A c \in ApiCtxs :
       LET h == ctxs[c].hooks
       IN /\ \A i \in DOMAIN h :
                /\ i > 1 => h[i - 1].back
                /\ IF i > 1 /\ h[i - 1].stage = h[i].stage
                   THEN h[i].idx = h[i - 1].idx + 1 /\ ~h[i - 1].break
                   ELSE h[i].idx = 1
          /\ \A stage \in {"before", "afterApi", "afterAll"} :
                Broke(c, stage) =>
                   /\ Succeeded(c, stage)
                   /\ ~(ctxs[c].pc \in {"hook", "hookWait", "hookRun"}
                        /\ ctxs[c].hookStage = stage)
          /\ Broke(c, "before") => ctxs[c].pc = "main" \/ "main" \in ctxs[c].ran

HookBreakWitness ==
    \E c \in ApiCtxs :
       /\ Len(apis[nodes[ctxs[c].node].api].before) = 3
       /\ Broke(c, "before")
       /\ LastHook(c, "before").idx = 2
       /\ ctxs[c].opts
       /\ ctxs[c].pc = "done"

(***************************************************************************)
(* C21  Hook quit.  When the run of the API of a string hook called back   *)
(* with an error after a response of an unexpected status code, the chain  *)
(* was ended silently (break set, the hook stage without error) if the     *)
(* code is in the quit list of the hook, and the hook stage failed with    *)
(* that error if it is not.                                                *)
(***************************************************************************)
\* The quit list of the hook that entry e of the history of context c tells of
QuitOf(c, e) ==
    HookQuitList([hookIdx |-> e.idx], apis[nodes[ctxs[c].node].api][e.stage])

HookQuit ==
    \A c \in ApiCtxs : \A i \in DOMAIN ctxs[c].hooks :
       LET e == ctxs[c].hooks[i]
           k == e.run
       IN (k # NoCtx /\ e.back /\ ctxs[k].statusCode # 0 /\ CallbackErr(ctxs[k]) # NoError) =>
             IF \E j \in DOMAIN QuitOf(c, e) : QuitOf(c, e)[j] = ctxs[k].statusCode
             THEN e.break /\ e.stage \notin FailedStages(c)
             ELSE /\ ~e.break
                  /\ \E j \in DOMAIN ctxs[c].errs :
                        ctxs[c].errs[j] = [stage |-> e.stage, err |-> ctxs[k].cbErr]

(***************************************************************************)
(* C22  Hook errors fail the stage.  When a user function of a before,     *)
(* afterApi or afterAll chain threw or called back with an error: the hook *)
(* stage failed with that error; when the stage is before, the main        *)
(* request is not dispatched and no child is run; and the context holds an *)
(* error for its completion callback.                                      *)
(***************************************************************************)
HookErrorsFail ==
    \A c \in ApiCtxs : \A i \in DOMAIN ctxs[c].hooks :
       LET e == ctxs[c].hooks[i]
       IN (e.raised /\ e.back) =>
             /\ \E j \in DOMAIN ctxs[c].errs :
                   ctxs[c].errs[j] = [stage |-> e.stage, err |-> <<c, "hook">>]
             /\ e.stage = "before" =>
                   /\ ~ctxs[c].opts
                   /\ ~\E k \in DOMAIN ctxs : IsChildCtx(k) /\ ctxs[k].parent = c
             /\ ctxs[c].cbErr # NoError

(***************************************************************************)
(* C23  Actions only after a successful response.  In every state of a     *)
(* run, when the main stage of a context failed (the request could not be  *)
(* resolved, the status was not the expected one or the body did not       *)
(* validate), no variable of the environment of the context was set,       *)
(* renamed or deleted by an action of the context.                         *)
(***************************************************************************)
ActionsOnlyOnSuccess ==
    \A c \in ApiCtxs :
       "main" \in FailedStages(c) =>
          \A a \in Range(apis[nodes[ctxs[c].node].api].actions) :
             \A v \in (IF a.kind = "var_rename" THEN {a.from, a.to} ELSE {a.name}) :
                EnvOf(c)[v].by # c

(***************************************************************************)
(* C24  Sibling failures do not cancel each other.  In every state of a    *)
(* run, whether or not another child of its parent has failed, a context   *)
(* started by runChildren, and every context below it, that has completed  *)
(* and none of whose own stages failed has executed every stage of its     *)
(* waterfall and has dispatched its request.                               *)
(***************************************************************************)
SiblingsRunOn ==
    \A s \in DOMAIN ctxs : IsChildCtx(s) =>
       \A d \in SubCtxs(s) \cap ApiCtxs :
          (ctxs[d].pc = "done" /\ ctxs[d].errs = <<>>) =>
             /\ {"onBeforeRun", "before", "main", "afterApi", "children", "afterAll",
                 "onAfterRun"} \subseteq ctxs[d].ran
             /\ ctxs[d].opts

\* A child failed and its parent went on with the error, while its sibling
\* had not sent its request; the sibling has then run every stage
SiblingsRunOnWitness ==
    \E k, s \in ApiCtxs :
       /\ k # s /\ IsChildCtx(k) /\ IsChildCtx(s) /\ ctxs[k].parent = ctxs[s].parent
       /\ ctxs[k].pc = "done" /\ ctxs[k].cbErr # NoError
       /\ ctxs[ctxs[k].parent].eachDone
       /\ ctxs[s].pc = "done" /\ ctxs[s].errs = <<>>
       /\ "afterAll" \in ctxs[s].ran
       /\ ctxs[s].opts

(***************************************************************************)
(* Variable substitution.  A string is a sequence of characters; a JSON    *)
(* tree is a string, an array of strings or an object of one key and one   *)
(* value, [kind, items] with the strings in items; vars gives a string to  *)
(* some names.  What a call gives is [err, val], err being "none" when it  *)
(* returns val.                                                            *)
(***************************************************************************)
MaxStr == 3

Chars == {"$", "{", "}", "a", "b"}

\* The characters of the class \w
WordChars == {"a", "b", "x", "y"}

Strings(n) == UNION { [1..k -> Chars] : k \in 0..n }

Undefined == <<"undefined">>

\* \w* at position i of str: how many characters it takes
RECURSIVE WordLen(_, _)
WordLen(str, i) ==
    IF i <= Len(str) /\ str[i] \in WordChars THEN 1 + WordLen(str, i + 1) ELSE 0

\* getMatches: str.match(/\${(\w*)}|\$(\w*)/g), from position i on
RECURSIVE GetMatches(_, _)
GetMatches(str, i) ==
    IF i > Len(str) THEN <<>>
    ELSE IF str[i] # "$" THEN GetMatches(str, i + 1)
    ELSE LET w == WordLen(str, i + 2)
             braced == /\ i + 2 + w <= Len(str)
                       /\ str[i + 1] = "{"
                       /\ str[i + 2 + w] = "}"
             n == IF braced THEN w + 3 ELSE 1 + WordLen(str, i + 1)
         IN <<SubSeq(str, i, i + n - 1)>> \o GetMatches(str, i + n)

\* normalizeVar of a match
NormalizeVar(str) ==
    IF Len(str) >= 2 /\ str[2] = "{" THEN SubSeq(str, 3, Len(str) - 1) ELSE Tail(str)

\* String.prototype.replace(varStr, varVal): the first place where varStr
\* stands is given the replacement text, in which $$ stands for one $
RECURSIVE Replacement(_)
Replacement(val) ==
    IF val = <<>> THEN <<>>
    ELSE IF Len(val) >= 2 /\ val[1] = "$" /\ val[2] = "$"
    THEN <<"$">> \o Replacement(SubSeq(val, 3, Len(val)))
    ELSE <<Head(val)>> \o Replacement(Tail(val))

Replace(str, varStr, varVal) ==
    LET at == { i \in 1..(Len(str) - Len(varStr) + 1) :
                   SubSeq(str, i, i + Len(varStr) - 1) = varStr }
        first == CHOOSE i \in at : \A j \in at : i <= j
    IN IF at = {} THEN str
       ELSE SubSeq(str, 1, first - 1) \o Replacement(varVal)
               \o SubSeq(str, first + Len(varStr), Len(str))

\* resolveStr with the resolver function of resolve2: the matches of the
\* string it was given are replaced one after another in what the string has
\* become; a name that vars does not have throws
RECURSIVE ResolveStr(_, _, _)
ResolveStr(str, matches, vs) ==
    IF matches = <<>> THEN [err |-> "none", val |-> str]
    ELSE LET varName == NormalizeVar(Head(matches))
             val == IF varName \in DOMAIN vs THEN vs[varName] ELSE Undefined
         IN IF val = Undefined THEN [err |-> "undefined", val |-> varName]
            ELSE ResolveStr(Replace(str, Head(matches), val), Tail(matches), vs)

\* resolve2: every string of the tree, keys and values
Resolve2(t, vs) ==
    LET r == [i \in DOMAIN t.items |-> ResolveStr(t.items[i], GetMatches(t.items[i], 1), vs)]
    IN IF \E i \in DOMAIN r : r[i].err # "none"
       THEN r[CHOOSE i \in DOMAIN r : r[i].err # "none" /\ \A j \in 1..(i - 1) : r[j].err = "none"]
       ELSE [err |-> "none", val |-> [t EXCEPT !.items = [i \in DOMAIN r |-> r[i].val]]]

\* A comparison that takes any two values for equal
IsEqualAlways(val1, val2) == TRUE

\* lodash.isEqual
IsEqual(val1, val2) == val1 = val2

\* resolve, up to the loop: var val1 = resolve2(toResolve, vars).  A call
\* that has not ended is [err |-> "pending", val |-> val1, count |-> count]
ResolveBegin(toResolve, vs) ==
    LET r1 == Resolve2(toResolve, vs)
    IN IF r1.err # "none" THEN [err |-> r1.err, val |-> r1.val, count |-> 0]
       ELSE [err |-> "pending", val |-> r1.val, count |-> 1]

\* resolve, one turn of for (count = 1; count < 50; count++), and the throw
\* that follows the loop
ResolveTurn(call, vs) ==
    LET r2 == Resolve2(call.val, vs)
    IN IF call.count >= 50 THEN [call EXCEPT !.err = "unresolved"]
       ELSE IF r2.err # "none" THEN [err |-> r2.err, val |-> r2.val, count |-> call.count]
       ELSE IF IsEqual(call.val, r2.val) THEN [call EXCEPT !.err = "none"]
       ELSE [err |-> "pending", val |-> r2.val, count |-> call.count + 1]

\* The trees that are resolved: every string of MaxStr characters or less,
\* and arrays and objects of two of these strings
Items == { <<"$", "a">>, <<"$", "{", "b", "}">>, <<"a">>, <<"$", "b", "$", "a">> }

Trees ==
    { [kind |-> "string", items |-> <<str>>] : str \in Strings(MaxStr) }
       \cup { [kind |-> k, items |-> <<i1, i2>>] : k \in {"array", "object"}, i1 \in Items, i2 \in Items }

\* The values a variable has: none, a text, a reference to itself, to the
\* other variable or to a variable that is not defined, a text in front of a
\* reference, and a $ written as $$
Values ==
    { Undefined, <<"b">>, <<"$", "a">>, <<"$", "b">>, <<"$", "{", "a", "}">>,
      <<"a", "$", "a">>, <<"$", "$">> }

Names == { <<"a">>, <<"b">> }

\* No API is loaded
Idle ==
    /\ mapis = <<>>
    /\ testNames = NoNames
    /\ apis = <<>>
    /\ referencedApis = <<>>
    /\ apisToInsert = <<>>
    /\ idx = 0
    /\ nodes = <<>>
    /\ inserting = {}
    /\ errors = <<>>
    /\ phase = "loaded"
    /\ ctxs = <<>>
    /\ heap = <<>>
    /\ serialQueues = <<>>

ResolveInit ==
    /\ Idle
    /\ args \in [toResolve : Trees, vars : [Names -> Values]]
    /\ results = <<>>

\* resolve(toResolve, vars) is called
ResolveCall ==
    /\ results = <<>>
    /\ results' = <<ResolveBegin(args.toResolve, args.vars)>>
    /\ UNCHANGED <<planVars, runVars, args>>

\* resolve is called with what resolve returned and the same vars
ResolveAgain ==
    /\ Len(results) = 1
    /\ results[1].err = "none"
    /\ results' = Append(results, ResolveBegin(results[1].val, args.vars))
    /\ UNCHANGED <<planVars, runVars, args>>

\* The loop of the call takes a turn
ResolvePass ==
    /\ results # <<>>
    /\ results[Len(results)].err = "pending"
    /\ results' = [results EXCEPT ![Len(results)] = ResolveTurn(@, args.vars)]
    /\ UNCHANGED <<planVars, runVars, args>>

ResolveNext == ResolveCall \/ ResolveAgain \/ ResolvePass

ResolveSpec == ResolveInit /\ [][ResolveNext]_vars

(***************************************************************************)
(* C25  Substitution fixpoint.  When resolve(t, vars) returned a value,    *)
(* resolve of that value with the same vars returns it again.              *)
(***************************************************************************)
SubstitutionFixpoint ==
    (Len(results) = 2 /\ results[2].err # "pending") =>
        results[2].err = "none" /\ results[2].val = results[1].val

\* Two passes were needed: the value of the variable that was referred to
\* refers to another one
SubstitutionFixpointWitness ==
    /\ Len(results) = 2
    /\ results[2].err = "none"
    /\ args.toResolve.items = << <<"$", "a">> >>
    /\ args.vars[<<"a">>] = <<"$", "b">>
    /\ args.vars[<<"b">>] = <<"b">>
    /\ results[2].val.items = << <<"b">> >>

(***************************************************************************)
(* C26  Unresolvable references fail loudly.  What resolve returns holds   *)
(* no $name and no ${name}; resolve throws when the tree refers to a       *)
(* variable that vars does not have; and resolve throws when the value of  *)
(* a variable the tree refers to refers to the variable itself.            *)
(***************************************************************************)
FailLoudly ==
    (Len(results) >= 1 /\ results[1].err # "pending") =>
       /\ results[1].err = "none" =>
             \A i \in DOMAIN results[1].val.items :
                GetMatches(results[1].val.items[i], 1) = <<>>
       /\ (\E i \in DOMAIN args.toResolve.items :
              \E m \in Range(GetMatches(args.toResolve.items[i], 1)) :
                 NormalizeVar(m) \notin Names \/ args.vars[NormalizeVar(m)] = Undefined)
             => results[1].err # "none"
       /\ (\E i \in DOMAIN args.toResolve.items :
              \E m \in Range(GetMatches(args.toResolve.items[i], 1)) :
                 /\ NormalizeVar(m) \in Names
                 /\ NormalizeVar(m) \in
                       { NormalizeVar(n) : n \in Range(GetMatches(args.vars[NormalizeVar(m)], 1)) })
             => results[1].err # "none"

(***************************************************************************)
(* MultiResponseApi.getApis.  The descriptor has one response; its request *)
(* is the sequence of the strings of the request object, in the order of   *)
(* JSON.stringify; varValues gives every name a string or an array of      *)
(* strings.  results holds the one call: its testList, the index j of the  *)
(* second loop and the APIs pushed so far, each with the test it was made  *)
(* for.                                                                    *)
(***************************************************************************)
\* getVarNames: the names the strings refer to, each once, in scan order
RECURSIVE GetVarNames(_, _)
GetVarNames(input, varList) ==
    IF input = <<>> THEN varList
    ELSE GetVarNames(Tail(input),
                     AddAllUniq(varList, [i \in DOMAIN GetMatches(Head(input), 1) |->
                                             NormalizeVar(GetMatches(Head(input), 1)[i])]))

\* str has varStr in it
Occurs(str, varStr) ==
    \E i \in 1..(Len(str) - Len(varStr) + 1) : SubSeq(str, i, i + Len(varStr) - 1) = varStr

\* getObjectWithVarsReplaced: for every name of vars that has a value, in
\* the order of the names, obj.replace('$' + name, val) on the JSON text of
\* the object.  The text is the strings of the object one after another, and
\* neither '$' + name nor a value goes across two of them: the replace
\* changes the first string that '$' + name occurs in.  An array is the
\* value of a name only when the request does not refer to the name
RECURSIVE GetObjectWithVarsReplaced(_, _, _)
GetObjectWithVarsReplaced(obj, vs, names) ==
    IF names = <<>> THEN obj
    ELSE LET varStr == <<"$">> \o Head(names)
             at == { i \in DOMAIN obj : Occurs(obj[i], varStr) }
             first == CHOOSE i \in at : \A j \in at : i <= j
         IN GetObjectWithVarsReplaced(
               IF at = {} \/ vs[Head(names)].isArray \/ vs[Head(names)].val = <<>> THEN obj
               ELSE [obj EXCEPT ![first] = Replace(@, varStr, vs[Head(names)].val)],
               vs, Tail(names))

NamesInOrder == << <<"a">>, <<"b">> >>

\* '' + k, for the indexes the bounds reach
NumberToString(k) == <<"0", "1", "2", "3", "4", "5", "6", "7", "8", "9">>[k + 1]

\* getApis, the first loop: the tests of the response, each with its name or
\* the name of the API and the status code, or one test of that name
TestList(d) ==
    IF d.tests = <<>> THEN << [name |-> d.name \o <<"-200">>, request |-> d.request] >>
    ELSE [i \in DOMAIN d.tests |->
             [name |-> IF d.tests[i].name = <<>> THEN d.name \o <<"-200">>
                       ELSE d.tests[i].name,
              request |-> d.request]]

\* getApis, one turn of the second loop: an API for every combination of the
\* values of the variables the request of the test refers to
ApisOfTest(test, j, varValues) ==
    LET g == GetVarCombinations(<<varValues>>, 1, GetVarNames(test.request, <<>>))
    IN [k \in DOMAIN g.refs |->
           [name |-> IF k - 1 = 0 THEN test.name
                      ELSE test.name \o <<"-", NumberToString(k - 1)>>,
            request |-> GetObjectWithVarsReplaced(test.request, g.heap[g.refs[k]],
                                                  NamesInOrder),
            test |-> j]]

\* An enumerated variable of varValues: MaxCombos strings made of v
ValuesOf(v) == [has |-> TRUE, val |-> <<>>, by |-> 0, isArray |-> TRUE,
                elems |-> [i \in 1..MaxCombos |-> [j \in 1..i |-> v]]]

\* The requests: a reference, two references to one variable, references to
\* two variables, a reference in braces, and no reference
Requests ==
    { << <<"$", "a">> >>,
      << <<"b", "$", "a">>, <<"$", "a">> >>,
      << <<"$", "a">>, <<"$", "b">> >>,
      << <<"$", "a", "}", "$", "b">> >>,
      << <<"$", "{", "a", "}">> >>,
      << <<"b">>, <<"a">> >> }

GetApisInit ==
    /\ Idle
    /\ args \in [name : { <<"t">> },
                  tests : { <<>>, << [name |-> <<"u">>] >>,
                            << [name |-> <<>>], [name |-> <<"u">>] >> },
                  request : Requests,
                  varValues : { [n \in Names |-> IF n \in en THEN ValuesOf(IF n = <<"a">> THEN "x" ELSE "y")
                                                 ELSE Scalar(TRUE, IF n = <<"a">> THEN <<"x">> ELSE <<"y">>, 0)] :
                                en \in SUBSET Names }]
    /\ results = <<>>

\* getApis is called: the first loop
GetApisTests ==
    /\ results = <<>>
    /\ results' = << [testList |-> TestList(args), j |-> 0, apis |-> <<>>] >>
    /\ UNCHANGED <<planVars, runVars, args>>

\* A turn of the second loop
GetApisCombinations ==
    /\ results # <<>>
    /\ results[1].j < Len(results[1].testList)
    /\ results' = [results EXCEPT
                      ![1].j = @ + 1,
                      ![1].apis = @ \o ApisOfTest(results[1].testList[results[1].j + 1],
                                                 results[1].j + 1, args.varValues)]
    /\ UNCHANGED <<planVars, runVars, args>>

GetApisNext == GetApisTests \/ GetApisCombinations

GetApisSpec == GetApisInit /\ [][GetApisNext]_vars

(***************************************************************************)
(* C27  Combination fan-out.  When getApis has returned, for every test:   *)
(* the APIs made for it are as many as the product of the numbers of       *)
(* values of the enumerated variables its request refers to; the k-th is   *)
(* named with the suffix -k, the first with the name of the test, and the  *)
(* names differ; and no request of them refers to an enumerated variable   *)
(* any more: every reference has been replaced by the chosen value.        *)
(***************************************************************************)
\* The enumerated variables the request refers to
EnumeratedIn(request) ==
    { n \in Range(GetVarNames(request, <<>>)) \cap Names : args.varValues[n].isArray }

FanOutCount ==
    (results # <<>> /\ results[1].j = Len(results[1].testList)) =>
       \A j \in DOMAIN results[1].testList :
          LET mine == SelectSeq(results[1].apis, LAMBDA api : api.test = j)
              test == results[1].testList[j]
              en == EnumeratedIn(test.request)
          IN /\ Len(mine) = (IF <<"a">> \in en THEN MaxCombos ELSE 1)
                               * (IF <<"b">> \in en THEN MaxCombos ELSE 1)
             /\ \A k \in DOMAIN mine :
                   mine[k].name = IF k = 1 THEN test.name
                                  ELSE test.name \o <<"-", NumberToString(k - 1)>>
             /\ \A k, l \in DOMAIN mine : k # l => mine[k].name # mine[l].name

FanOut ==
    /\ FanOutCount
    /\ (results # <<>> /\ results[1].j = Len(results[1].testList)) =>
          \A k \in DOMAIN results[1].apis :
             \A i \in DOMAIN results[1].apis[k].request :
                \A m \in Range(GetMatches(results[1].apis[k].request[i], 1)) :
                   NormalizeVar(m) \notin EnumeratedIn(args.request)

(***************************************************************************)
(* C28  No duplicate insertion on a path.  In every tree that compile      *)
(* builds, and at every step of building it, no plan node has the API of   *)
(* one of its ancestors: of a node it is below through children, which are *)
(* the nodes its parent links lead to.                                     *)
(***************************************************************************)
NoDuplicateOnPath ==
    \A m \in PlanNodes :
       /\ \A n \in SubTree(nodes, m) \ {m} : nodes[n].api # nodes[m].api
       /\ \A n \in AncestorsOf(nodes, m) : nodes[n].api # nodes[m].api

\* A compiled tree with a plan node below the plan node of an API that
\* refers to a variable the lower one produces: the insertion of the upper
\* API went into the subtree of its own producers
NoDuplicateOnPathWitness ==
    /\ phase = "compiled"
    /\ \E n \in PlanNodes : \E m \in AncestorsOf(nodes, n) \cap PlanNodes :
          \E i \in DOMAIN ApiOf(n).produces :
             Includes(ApiOf(m).consumes, ApiOf(n).produces[i])

(***************************************************************************)
(* C29  Queue release is FIFO.  At every moment the queue of a name holds  *)
(* exactly the contexts of that name that have entered doRun and have not  *)
(* finished their waterfall, each once and in the order they arrived; the  *)
(* one at the head runs and all the others wait.  So a context that        *)
(* finishes, resumed or not, is out of the queue, and the earliest waiter  *)
(* has been resumed.                                                       *)
(***************************************************************************)
\* The queue of a name has the unfinished contexts of the name, each once
QueueHoldsUnfinished ==
    \A q \in DOMAIN serialQueues :
       LET queue == serialQueues[q]
       IN /\ Range(queue) = { c \in DOMAIN ctxs :
                                ctxs[c].queueName = q /\ ctxs[c].pc \notin {"new", "done"} }
          /\ \A i, j \in DOMAIN queue : i # j => queue[i] # queue[j]

\* The head of a queue runs, the others wait
QueueHeadRuns ==
    \A q \in DOMAIN serialQueues :
       \A i \in DOMAIN serialQueues[q] :
          (ctxs[serialQueues[q][i]].pc = "waiting") <=> (i > 1)

QueueFifo ==
    phase = "running" => QueueHoldsUnfinished /\ QueueHeadRuns

(***************************************************************************)
(* C30  subTreeProduces excludes satellites.  After any sequence of        *)
(* insertions, the subTreeProduces of the root and of every plan node are  *)
(* the variables that the APIs of the node and of the plan nodes below it  *)
(* produce, and no others: a variable that only a preRun getter, its       *)
(* destructor child or a postRun destructor produces is in none of them.   *)
(***************************************************************************)
\* The variables the APIs of the plan nodes of the subtree of n produce
ProducedBelow(n) ==
    UNION { Range(ApiOf(m).produces) : m \in { k \in SubTree(nodes, n) : nodes[k].api # NoApi } }

SubTreeProducesExact ==
    \A n \in PlanNodes \cup (IF nodes = <<>> THEN {} ELSE {Root}) :
       Range(nodes[n].subTreeProduces) = ProducedBelow(n)

(***************************************************************************)
(* C31  ignoreFailures is inherited.  Every context whose node is a preRun *)
(* getter or below one - the getter's context, the contexts of the         *)
(* combinations of the getter, the contexts of the destructor child - has  *)
(* ignoreFailures set.                                                     *)
(***************************************************************************)
\* Node n is the preRun getter of a node, or below one
RECURSIVE InPreRun(_)
InPreRun(n) ==
    \/ \E h \in DOMAIN nodes : nodes[h].preRun = n
    \/ nodes[n].parent # NoNode /\ InPreRun(nodes[n].parent)

IgnoreFailuresInherited ==
    \A c \in DOMAIN ctxs : InPreRun(ctxs[c].node) => ctxs[c].ignoreFailures

(***************************************************************************)
(* The two scans of the Api constructor, over a response as it is written. *)
(* An action is written in the body sketch, where the scan comes to it     *)
(* with the path of the place (at), or in the actions list of the          *)
(* response, where the scan has no path (at = "").  The constructor scans  *)
(* the body of its clone of the response, and then the test: the test that *)
(* getApis makes when the response has no tests holds the response itself, *)
(* a test of the tests list does not.  results holds the state of the Api  *)
(* after each scan: [produces, deletes, actions, var_new, serial_vars,     *)
(* err].                                                                   *)
(***************************************************************************)
WithPath(act, path, at) == [path |-> path, at |-> at, fcn |-> FALSE] @@ act

\* scanActions, the switch for one object with an action key
ScanKey(act, acc, requestBodyVars) ==
    CASE act.kind = "var_new" ->
           IF acc.var_new # NoVarNew THEN [acc EXCEPT !.err = "multiple var_new"]
           ELSE IF act.path = "" /\ act.at = ""
           THEN [acc EXCEPT !.err = "var_new without a path"]
           ELSE [acc EXCEPT
                    !.var_new = [name |-> act.name, get |-> act.get, delete |-> act.delete,
                                 serial_vars |-> act.serial_vars],
                    !.produces = Append(@, act.name),
                    !.actions = Append(@, [act EXCEPT !.path = IF @ = "" THEN act.at ELSE @]),
                    !.serial_vars = IF act.serial_vars # <<>> THEN act.serial_vars
                                    ELSE requestBodyVars]
      [] act.kind = "var_set" ->
           IF act.path = "" /\ ~act.fcn /\ act.at = ""
           THEN [acc EXCEPT !.err = "var_set without a path"]
           ELSE [acc EXCEPT
                    !.produces = Append(@, act.name),
                    !.actions = Append(@, [act EXCEPT !.path = IF @ = "" /\ ~act.fcn
                                                               THEN act.at ELSE @])]
      [] act.kind = "var_rename" ->
           [acc EXCEPT !.deletes = Append(@, act.from),
                       !.produces = Append(@, act.to),
                       !.actions = Append(@, act)]
      [] act.kind = "var_delete" ->
           [acc EXCEPT !.deletes = Append(@, act.name),
                       !.err = "TypeError"]

\* scanActions over the objects with action keys that the walk comes to, in
\* the order of the walk; an exception ends it
RECURSIVE ScanWalk(_, _, _)
ScanWalk(toScan, acc, requestBodyVars) ==
    IF toScan = <<>> \/ acc.err # "none" THEN acc
    ELSE ScanWalk(Tail(toScan), ScanKey(Head(toScan), acc, requestBodyVars),
                  requestBodyVars)

\* The response in the order of its keys
RECURSIVE ResponseWalk(_, _)
ResponseWalk(res, keys) ==
    IF keys = <<>> THEN <<>>
    ELSE (IF Head(keys) = "body" THEN res.body ELSE res.actions)
         \o ResponseWalk(res, Tail(keys))

\* The actions written in a body sketch and those written in an actions list
BodyActions ==
    { WithPath(VarSet("x"), "", "id"),
      WithPath(VarNew("g", <<"get">>, <<"del">>, <<>>), "", "id"),
      WithPath(VarRename("x", "y"), "", "id") }

ListActions ==
    { WithPath(VarSet("z"), "id", ""),
      WithPath(VarNew("h", <<"get">>, <<"del">>, <<"n">>), "id", ""),
      WithPath(VarRename("z", "y"), "", ""),
      WithPath(VarDelete("z"), "", "") }

MaxActions == 2

SeqsOf(S, n) == UNION { [1..k -> S] : k \in 0..n }

ScanInit ==
    /\ Idle
    /\ args \in [body : SeqsOf(BodyActions, MaxActions),
                  actions : SeqsOf(ListActions, MaxActions),
                  keys : { <<"body", "actions">>, <<"actions", "body">> },
                  tests : BOOLEAN,
                  requestBodyVars : { <<"b">> }]
    /\ results = <<>>

\* Api: self.scanActions(self.response.body, "")
ApiScanBody ==
    /\ results = <<>>
    /\ results' = << ScanWalk(args.body,
                              [produces |-> <<>>, deletes |-> <<>>, actions |-> <<>>,
                               var_new |-> NoVarNew, serial_vars |-> <<>>, err |-> "none"],
                              args.requestBodyVars) >>
    /\ UNCHANGED <<planVars, runVars, args>>

\* Api: self.scanActions(test)
ApiScanTest ==
    /\ Len(results) = 1
    /\ results' = Append(results,
                         IF args.tests THEN results[1]
                         ELSE ScanWalk(ResponseWalk(args, args.keys), results[1],
                                       args.requestBodyVars))
    /\ UNCHANGED <<planVars, runVars, args>>

ScanNext == ApiScanBody \/ ApiScanTest

ScanSpec == ScanInit /\ [][ScanNext]_vars

\* What the response declares, in scan order, and what an action is apart
\* from its path
Declared == ResponseWalk(args, args.keys)

Bare(act) == [kind |-> act.kind, name |-> act.name, from |-> act.from, to |-> act.to]

DeclaredOf(kind) == { i \in DOMAIN Declared : Declared[i].kind = kind }

(***************************************************************************)
(* C32  Action scanning.  The Api of a response that declares var_set,     *)
(* var_rename and var_delete actions and at most one var_new is built: its *)
(* produces have                                                           *)
(* every var_set name, the var_new name and every var_rename 'to', its     *)
(* deletes are the var_rename 'from's and the var_delete names, and its    *)
(* actions are the declared ones, once each, in scan order.                *)
(***************************************************************************)
ActionScanning ==
    (Len(results) = 2 /\ Cardinality(DeclaredOf("var_new")) <= 1) =>
       /\ results[2].err = "none"
       /\ \A i \in DOMAIN Declared :
             /\ Declared[i].kind \in {"var_set", "var_new"} =>
                   Includes(results[2].produces, Declared[i].name)
             /\ Declared[i].kind = "var_rename" =>
                   Includes(results[2].produces, Declared[i].to)
       /\ Range(results[2].deletes) =
             { Declared[i].from : i \in DeclaredOf("var_rename") }
             \cup { Declared[i].name : i \in DeclaredOf("var_delete") }
       /\ [i \in DOMAIN results[2].actions |-> Bare(results[2].actions[i])]
             = [i \in DOMAIN Declared |-> Bare(Declared[i])]

(***************************************************************************)
(* C33  At most one var_new.  Of a response that declares no var_delete:   *)
(* with exactly one var_new, in the actions list or in the body sketch,    *)
(* the Api is built with that var_new, its path the scan path when none is *)
(* given, and with its serial_vars; with more than one var_new the Api is  *)
(* rejected with the error of the multiple var_new.                        *)
(***************************************************************************)
AtMostOneVarNew ==
    (Len(results) = 2 /\ DeclaredOf("var_delete") = {}) =>
       /\ Cardinality(DeclaredOf("var_new")) = 1 =>
             LET act == Declared[CHOOSE i \in DeclaredOf("var_new") : TRUE]
             IN /\ results[2].err = "none"
                /\ results[2].var_new.name = act.name
                /\ results[2].serial_vars = IF act.serial_vars # <<>> THEN act.serial_vars
                                            ELSE args.requestBodyVars
                /\ \E i \in DOMAIN results[2].actions :
                      /\ Bare(results[2].actions[i]) = Bare(act)
                      /\ results[2].actions[i].path = IF act.path = "" THEN act.at
                                                      ELSE act.path
       /\ Cardinality(DeclaredOf("var_new")) > 1 => results[2].err = "multiple var_new"

(***************************************************************************)
(* The first loop of Hapi.compile over descriptors that give several       *)
(* concrete APIs.  A descriptor is [groups, names]: its groups and the     *)
(* names of the APIs that getApis returns for it, in that order.  results  *)
(* holds the one call: the number of descriptors done, and apisToInsert as *)
(* pairs <<descriptor, API>>.                                              *)
(***************************************************************************)
\* MultiResponseApi.matches
MapiMatches(mapi, names) ==
    \/ names = NoNames
    \/ \E i \in DOMAIN mapi.groups : \E t \in names : StartsWith(mapi.groups[i], t)

\* compile, the loop over the APIs of descriptor m from the j-th on: match
\* is the variable of compile, which the loop sets and never clears
RECURSIVE FilterApis(_, _, _, _, _, _)
FilterApis(mapi, m, j, match, names, toInsert) ==
    IF j > Len(mapi.names) THEN toInsert
    ELSE LET match1 == IF ~match /\ names # NoNames
                       THEN \E t \in names : StartsWith(mapi.names[j], t)
                       ELSE match
         IN FilterApis(mapi, m, j + 1, match1, names,
                       IF match1 THEN Append(toInsert, <<m, j>>) ELSE toInsert)

MaxMapis == 2

Mapis ==
    { [groups |-> g, names |-> n] :
         g \in { <<>>, << <<"g">> >> },
         n \in { << <<"a", "200">> >>,
                 << <<"a", "200">>, <<"a", "404">> >>,
                 << <<"a", "404">>, <<"a", "200">> >>,
                 << <<"b", "200">> >> } }

FilterInit ==
    /\ Idle
    /\ args \in [mapis : UNION { [1..k -> Mapis] : k \in 1..MaxMapis },
                  testNames : { NoNames, {<<"a">>}, {<<"a", "200">>}, {<<"g">>},
                                {<<"b">>, <<"a", "404">>} }]
    /\ results = << [i |-> 0, apisToInsert |-> <<>>] >>

\* A turn of the loop over self.mapis
CompileMapi ==
    /\ results[1].i < Len(args.mapis)
    /\ LET m == results[1].i + 1
       IN results' = << [i |-> m,
                         apisToInsert |->
                            FilterApis(args.mapis[m], m, 1,
                                       MapiMatches(args.mapis[m], args.testNames),
                                       args.testNames, results[1].apisToInsert)] >>
    /\ UNCHANGED <<planVars, runVars, args>>

FilterSpec == FilterInit /\ [][CompileMapi]_vars

(***************************************************************************)
(* C34  Test filter.  When the first loop of compile has ended, the APIs   *)
(* asked to be inserted are exactly those whose own name, or one of whose  *)
(* descriptor's groups, starts with one of the given names; all of them    *)
(* when no names are given.                                                *)
(***************************************************************************)
Selected(m, j) ==
    \/ args.testNames = NoNames
    \/ \E t \in args.testNames : StartsWith(args.mapis[m].names[j], t)
    \/ \E i \in DOMAIN args.mapis[m].groups :
          \E t \in args.testNames : StartsWith(args.mapis[m].groups[i], t)

TestFilter ==
    results[1].i = Len(args.mapis) =>
       Range(results[1].apisToInsert) =
          { mj \in UNION { { <<m, j>> : j \in DOMAIN args.mapis[m].names } :
                              m \in DOMAIN args.mapis } :
               Selected(mj[1], mj[2]) }

(***************************************************************************)
(* getBodySchema on body sketches.  A sketch is [kind, opt, kids]: a       *)
(* string ("descr", or "(opt)descr" when opt), an array of one sketch, an  *)
(* object of properties (without the key __), or the object of the one key *)
(* '*'; kids are [key, val].  A schema is [type, required, properties,     *)
(* items, patternProperties], the last three as sequences of [key, val];   *)
(* required is [flag, keys]: absent, the boolean true or false, or the     *)
(* array of keys.  results holds the schema that bodyToJsonSchema gave and *)
(* then the one that setSchemaRequiredArray left.                          *)
(***************************************************************************)
Absent == [flag |-> "absent", keys |-> <<>>]
Flag(b) == [flag |-> IF b THEN "true" ELSE "false", keys |-> <<>>]

\* getDocInfo(str, 'string'): an opt flag widens the type with null
GetDocInfo(opt) ==
    [type |-> IF opt THEN "string,null" ELSE "string", required |-> Flag(~opt),
     properties |-> <<>>, items |-> <<>>, patternProperties |-> <<>>]

RECURSIVE BodyToJsonSchema(_)
BodyToJsonSchema(body) ==
    LET kids == [i \in DOMAIN body.kids |->
                    [key |-> body.kids[i].key, val |-> BodyToJsonSchema(body.kids[i].val)]]
    IN CASE body.kind = "string" -> GetDocInfo(body.opt)
         [] body.kind = "array" ->
              [type |-> "array", required |-> Flag(TRUE), properties |-> <<>>,
               items |-> kids, patternProperties |-> <<>>]
         [] body.kind = "*" ->
              [type |-> "", required |-> Absent, properties |-> <<>>, items |-> <<>>,
               patternProperties |-> kids]
         [] body.kind = "object" ->
              [type |-> "object", required |-> Flag(TRUE), properties |-> kids,
               items |-> <<>>, patternProperties |-> <<>>]

\* setSchemaRequiredArray
RECURSIVE SetSchemaRequiredArray(_)
SetSchemaRequiredArray(schema) ==
    IF schema.type = "object"
    THEN LET at == SelectSeq([i \in DOMAIN schema.properties |-> i],
                             LAMBDA i : schema.properties[i].val.required.flag = "true"
                                        \/ schema.properties[i].val.required.flag = "array")
             required == [i \in DOMAIN at |-> schema.properties[at[i]].key]
         IN [schema EXCEPT
                !.properties = [i \in DOMAIN @ |->
                                  [key |-> @[i].key,
                                   val |-> SetSchemaRequiredArray(
                                              [@[i].val EXCEPT !.required = Absent])]],
                !.required = IF Len(required) > 0
                             THEN [flag |-> "array", keys |-> required] ELSE Absent]
    ELSE IF schema.type = "array"
    THEN [schema EXCEPT !.items = [i \in DOMAIN @ |->
                                     [key |-> @[i].key,
                                      val |-> SetSchemaRequiredArray(@[i].val)]]]
    ELSE [schema EXCEPT !.required = Absent]

MaxNest == 2

Kid(key, val) == [key |-> key, val |-> val]

\* The sketches nested at most n deep
RECURSIVE Sketches(_)
Sketches(n) ==
    LET leaves == { [kind |-> "string", opt |-> o, kids |-> <<>>] : o \in BOOLEAN }
        below == Sketches(n - 1)
    IN IF n = 0 THEN leaves
       ELSE below
            \cup { [kind |-> k, opt |-> FALSE, kids |-> <<Kid("", b)>>] :
                      k \in {"array", "*"}, b \in below }
            \cup { [kind |-> "object", opt |-> FALSE, kids |-> <<Kid("a", b)>>] :
                      b \in below }
            \cup { [kind |-> "object", opt |-> FALSE,
                    kids |-> <<Kid("a", b), Kid("b", c)>>] : b \in below, c \in below }

SchemaInit ==
    /\ Idle
    /\ args \in [body : Sketches(MaxNest)]
    /\ results = <<>>

\* getBodySchema: bodyToJsonSchema(body, map, "", vars)
GetBodySchemaTranslate ==
    /\ results = <<>>
    /\ results' = << BodyToJsonSchema(args.body) >>
    /\ UNCHANGED <<planVars, runVars, args>>

\* getBodySchema: setSchemaRequiredArray(schema)
GetBodySchemaRequired ==
    /\ Len(results) = 1
    /\ results' = Append(results, SetSchemaRequiredArray(results[1]))
    /\ UNCHANGED <<planVars, runVars, args>>

SchemaNext == GetBodySchemaTranslate \/ GetBodySchemaRequired

SchemaSpec == SchemaInit /\ [][SchemaNext]_vars

(***************************************************************************)
(* C35  Required arrays.  In the schema that getBodySchema returns, every  *)
(* object node lists in its required array exactly its children that were  *)
(* required, and no node - the root, the items of arrays and what is below *)
(* patternProperties included - still has a boolean required flag.         *)
(***************************************************************************)
\* The children of a schema node, whatever holds them
KidsOf(schema) == schema.properties \o schema.items \o schema.patternProperties

\* was is the translated node and now the returned one
RECURSIVE Canonical(_, _)
Canonical(was, now) ==
    /\ now.required.flag \in {"absent", "array"}
    /\ was.type = "object" =>
          Range(now.required.keys) =
             { was.properties[i].key :
                  i \in { j \in DOMAIN was.properties :
                             was.properties[j].val.required.flag = "true" } }
    /\ \A i \in DOMAIN KidsOf(was) : Canonical(KidsOf(was)[i].val, KidsOf(now)[i].val)

RequiredArrays ==
    Len(results) = 2 => Canonical(results[1], results[2])

(***************************************************************************)
(* C36  preRun is inside the critical section.  While the preRun cleanup   *)
(* of a context with a queue name runs (its getter, then the destructor),  *)
(* no other context with the same queue name is between the start of its   *)
(* own preRun stage and the end of its waterfall.                          *)
(***************************************************************************)
\* Context c has started its waterfall and not ended it
InWaterfall(c) == ctxs[c].pc \notin {"new", "waiting", "series", "done"}

PreRunInCriticalSection ==
    \A c1, c2 \in DOMAIN ctxs :
        ( /\ c1 # c2
          /\ ctxs[c2].queueName # NoKey
          /\ ctxs[c1].queueName = ctxs[c2].queueName
          /\ ctxs[c2].pc = "preRunWait" )
        => ~InWaterfall(c1)

\* The getter of a constructor is awaited while a context with the same
\* queue name is suspended
PreRunInCriticalSectionWitness ==
    \E c1, c2 \in DOMAIN ctxs :
        /\ c1 # c2
        /\ ctxs[c2].queueName # NoKey
        /\ ctxs[c1].queueName = ctxs[c2].queueName
        /\ ctxs[c2].pc = "preRunWait"
        /\ \E k \in DOMAIN ctxs : ctxs[k].parent = c2 /\ ctxs[k].pc = "mainWait"
        /\ ctxs[c1].pc = "waiting"

(***************************************************************************)
(* C37  Running does not change the plan.  While the plan is run, the      *)
(* consumes list of every API is the one the API was built with, so that   *)
(* every run of the API is expanded over the same variables.               *)
(***************************************************************************)
PlanUnchanged ==
    phase = "running" =>
        \A a \in DOMAIN apis : apis[a].consumes = mapis[a].consumes

(***************************************************************************)
(* C38  Hook continuations are not crossed.  Every run of the API of a     *)
(* string hook, also of a hook in object form that more than one context   *)
(* runs, calls back the chain of the context that invoked the hook: once   *)
(* the context that ran the API has finished, the hook has called back its *)
(* invoker, and no context has a stage of its waterfall called back a      *)
(* second time.                                                            *)
(***************************************************************************)
HookContinuationsNotCrossed ==
    \A c \in DOMAIN ctxs :
       /\ ~ctxs[c].again
       /\ \A i \in DOMAIN ctxs[c].hooks :
             LET e == ctxs[c].hooks[i]
             IN (e.run # NoCtx /\ ctxs[e.run].pc = "done") => e.back

(***************************************************************************)
(* C39  A failed combination stops the iteration.  When the context of a   *)
(* combination has finished with an error, no combination after it has a   *)
(* context, and the context that iterates has finished with that error: it *)
(* hands it to its parent, whose children stage fails with it, or hands on *)
(* nothing when it ignores failures, and then the preRun stage of its      *)
(* parent has not failed.                                                  *)
(***************************************************************************)
\* The contexts of the combinations of d, and what they started
ComboSubCtxs(d) == UNION { SubCtxs(k) : k \in CombosOf(d) }

FailedCombinationStops ==
    \A d \in DOMAIN ctxs : \A k \in CombosOf(d) :
       (ctxs[k].pc = "done" /\ ctxs[k].cbErr # NoError) =>
          LET p == ctxs[d].parent
          IN /\ \A k2 \in CombosOf(d) : ctxs[k2].index <= ctxs[k].index
             /\ ctxs[d].pc = "done"
             /\ ctxs[d].cbErr = ctxs[k].cbErr
             /\ (IsChildCtx(d) /\ p \in ApiCtxs /\ ~ctxs[d].ignoreFailures) =>
                   \E j \in DOMAIN ctxs[p].errs :
                      /\ ctxs[p].errs[j].stage = "children"
                      /\ \/ ctxs[p].errs[j].err = ctxs[k].cbErr
                         \/ ctxs[p].errs[j].err[1] \notin ComboSubCtxs(d)
             /\ (d \in PreRunCtxsOf(p) /\ ctxs[d].ignoreFailures) =>
                   "preRun" \notin FailedStages(p)

\* The first of two combinations failed below an API, whose children stage
\* failed with the error of that combination; the second was never run
FailedCombinationStopsWitness ==
    \E d \in DOMAIN ctxs : \E k \in CombosOf(d) :
       /\ Len(ctxs[d].combos) = MaxCombos
       /\ ctxs[k].index = 0
       /\ ctxs[k].pc = "done"
       /\ ctxs[k].cbErr # NoError
       /\ CombosOf(d) = {k}
       /\ ctxs[d].parent \in ApiCtxs
       /\ ~ctxs[d].ignoreFailures
       /\ ctxs[ctxs[d].parent].errs =
             <<[stage |-> "children", err |-> ctxs[k].cbErr]>>

(***************************************************************************)
(* C40  Queue head assertion.  A context that entered a serialization      *)
(* queue itself and has not finished is the head of that queue, so that    *)
(* the element it removes at the release step is its own; no context ends  *)
(* with "program error: ctx should equal self".                            *)
(***************************************************************************)
QueueHeadIsSelf ==
    \A c \in DOMAIN ctxs :
       /\ ctxs[c].pc # "program error"
       /\ (ctxs[c].queue /\ ctxs[c].pc # "done") =>
             /\ ctxs[c].queueName \in DOMAIN serialQueues
             /\ serialQueues[ctxs[c].queueName] # <<>>
             /\ Head(serialQueues[ctxs[c].queueName]) = c

\* A context that entered its queue itself has removed its element and
\* finished, while another context had entered the queue behind it and was
\* let run by it
QueueHeadIsSelfWitness ==
    \E c, c2 \in DOMAIN ctxs :
       /\ c # c2
       /\ ctxs[c].queue
       /\ ctxs[c].pc = "done"
       /\ ctxs[c2].queueName = ctxs[c].queueName
       /\ ~ctxs[c2].queue
       /\ ctxs[c2].pc \notin {"new", "waiting"}
       /\ Head(serialQueues[ctxs[c].queueName]) = c2
====
